---- MODULE Spec2Model ----
(***************************************************************************)
(* The decision-and-dispatch pipeline of the auto-robot agent:             *)
(*   ToolRegistry            (src/src/tool_registry.py)                    *)
(*   RuleBasedDecisionEngine (src/src/decision_engine.py)                  *)
(*   HybridDecisionEngine    (src/src/decision_engine.py)                  *)
(*   AutonomousAgent.run     (src/src/main.py)                             *)
(* Text is a sequence of tokens, a dict is a TLA+ function or a set of     *)
(* <<key, value>> pairs, and Python's None is a value of the field's type  *)
(* that no other value of the model equals.                                *)
(***************************************************************************)
EXTENDS Integers, Sequences, FiniteSets, TLC

\* ------------------------------------------------------------------ bounds
MaxRules == 2
MaxTaskLen == 2
MaxTasks == 1
MaxExitCode == 2
MaxSignal == 3
MaxLogCalls == 3

\* ------------------------------------------------------------ value space
\* tokens of a task text; a rule pattern is a keyword, i.e. a short text
Chars == {"x", "y"}

RECURSIVE TextsUpTo(_)
TextsUpTo(n) ==
    IF n = 0 THEN {<<>>}
    ELSE LET shorter == TextsUpTo(n - 1)
         IN shorter \cup {Append(t, c) : t \in {s \in shorter : Len(s) = n - 1}, c \in Chars}

Tasks == TextsUpTo(MaxTaskLen) \ {<<>>}
Patterns == {<<"x">>, <<"y">>}

\* capability names; None is Python's None where a name is expected
ToolNames == {"calculator", "execute_command"}
None == "None"

\* the values a caller may hand to register_tool:
\*   f1, f2   plain functions
\*   opaque   a callable inspect.signature cannot introspect (e.g. builtin min)
\*   falsy    a callable object whose truth value is False
\*   nc       a non-callable value
ToolValues == {"f1", "f2", "opaque", "falsy", "nc"}
Callable(v) == v \in {"f1", "f2", "opaque", "falsy"}
Truthy(v) == v \notin {None, "falsy"}
HasSignature(v) == v \in {"f1", "f2", "falsy"}

\* a dict of tool parameters is a set of <<key, value>> pairs
NoneParams == {<<"None", <<>>>>}
EmptyParams == {}
CommandParams(t) == {<<"command", t>>}

\* response texts: MarkerTok is the phrase the dispatcher looks for
MarkerTok == "rule_engine_cannot_handle"
SentinelMarker == <<MarkerTok>>
SentinelText == <<MarkerTok, "handing_to_llm">>
NoneText == <<"None">>

\* Python's `p in t` on strings
SubstringOf(p, t) ==
    \E i \in 0..(Len(t) - Len(p)) : SubSeq(t, i + 1, i + Len(p)) = p

\* --------------------------------------------------------------- Action
Action(type, tool_name, tool_params, response) ==
    [type |-> type, tool_name |-> tool_name,
     tool_params |-> tool_params, response |-> response]

ToolCall(n, p) == Action("tool_call", n, p, NoneText)
Response(t) == Action("response", None, NoneParams, t)
NoAction == Action("None", None, NoneParams, NoneText)

\* ------------------------------------------------------------------ state
VARIABLES
    tools,        \* ToolRegistry._tools: name -> callable
    instance,     \* ToolRegistry._instance: the shared instance, or None
    initialized,  \* whether the instance has the attribute _initialized
    rules,        \* RuleBasedDecisionEngine.rules, in insertion order
    rule_engine,  \* the rule engine handed to HybridDecisionEngine.__init__
    pc,           \* position of AutonomousAgent.run
    task,         \* the task of the run in progress
    rule_action,  \* what rule_engine.decide returned
    llm_action,   \* what llm_engine.decide returned
    action,       \* what HybridDecisionEngine.decide returned
    calls,        \* the engines consulted for this task, in call order
    extracted,    \* indices of the rules whose params_extractor was called
    effects,      \* capabilities and processes started for this task
    result,       \* what run returned
    audit,        \* the entries log_action appended, oldest first
    tasksRun,     \* number of calls of run so far
    ret,          \* outcome of the last ToolRegistry call
    proc,         \* the last call of Sandbox.execute_command
    llm,          \* the call of LLMDecisionEngine.decide in progress
    sink          \* the AuditLogger and its log file

vars == <<tools, instance, initialized, rules, rule_engine, pc, task, rule_action, llm_action, action,
          calls, extracted, effects, result, audit, tasksRun, ret, proc, llm, sink>>

\* the Sandbox, the LLMDecisionEngine and the AuditLogger on their own
componentVars == <<proc, llm, sink>>

registryVars == <<tools, instance, initialized>>

taskVars == <<pc, task, rule_action, llm_action, action, calls, extracted,
              effects, result, audit, tasksRun>>

Available == DOMAIN tools

\* ------------------------------------------------------ parameter extractors
\* the three shapes of params_extractor found in the sources:
\*   no_params  lambda t: {}
\*   command    lambda t: {"command": t.split(keyword)[1].strip()}
\*   fails      an extractor that raises on the task (int() of a non-number)
Extractors == {"no_params", "command", "fails"}

\* index of the first occurrence of p in t (p occurs in t)
FirstIndex(p, t) ==
    CHOOSE i \in 0..(Len(t) - Len(p)) :
        /\ SubSeq(t, i + 1, i + Len(p)) = p
        /\ \A j \in 0..(i - 1) : SubSeq(t, j + 1, j + Len(p)) # p

\* t.split(p)[1]: the text between the first and the second occurrence of p
SplitSecond(p, t) ==
    LET rest == SubSeq(t, FirstIndex(p, t) + Len(p) + 1, Len(t))
    IN IF SubstringOf(p, rest) THEN SubSeq(rest, 1, FirstIndex(p, rest)) ELSE rest

ExtractorRaises(rule, t) == rule.params_extractor = "fails"

ExtractorResult(rule, t) ==
    IF rule.params_extractor = "command"
    THEN CommandParams(SplitSecond(rule.pattern, t))
    ELSE EmptyParams

\* ------------------------------------------------- RuleBasedDecisionEngine
RuleSet == [pattern : Patterns, tool_name : ToolNames, params_extractor : Extractors]

\* RuleScan with `break` in place of `continue`: a raising extractor ends the scan
RECURSIVE RuleScan_StopOnRaise(_, _, _, _, _)
RuleScan_StopOnRaise(rs, i, t, avail, seen) ==
    IF i > Len(rs)
    THEN [action |-> Response(SentinelText), extracted |-> seen]
    ELSE LET rule == rs[i]
         IN IF SubstringOf(rule.pattern, t)
            THEN IF rule.tool_name \in avail
                 THEN IF ExtractorRaises(rule, t)
                      THEN [action |-> Response(SentinelText),
                            extracted |-> Append(seen, i)]
                      ELSE [action |-> ToolCall(rule.tool_name, ExtractorResult(rule, t)),
                            extracted |-> Append(seen, i)]
                 ELSE RuleScan_StopOnRaise(rs, i + 1, t, avail, seen)
            ELSE RuleScan_StopOnRaise(rs, i + 1, t, avail, seen)

\* RuleScan without the `tool_name in available_tools` test
RECURSIVE RuleScan_NoAvailabilityTest(_, _, _, _, _)
RuleScan_NoAvailabilityTest(rs, i, t, avail, seen) ==
    IF i > Len(rs)
    THEN [action |-> Response(SentinelText), extracted |-> seen]
    ELSE LET rule == rs[i]
         IN IF SubstringOf(rule.pattern, t)
            THEN IF ExtractorRaises(rule, t)
                 THEN RuleScan_NoAvailabilityTest(rs, i + 1, t, avail, Append(seen, i))
                 ELSE [action |-> ToolCall(rule.tool_name, ExtractorResult(rule, t)),
                       extracted |-> Append(seen, i)]
            ELSE RuleScan_NoAvailabilityTest(rs, i + 1, t, avail, seen)

\* RuleScan without the `return`: the scan goes on and the last satisfying rule wins
RECURSIVE RuleScan_LastWins(_, _, _, _, _)
RuleScan_LastWins(rs, i, t, avail, seen) ==
    IF i > Len(rs)
    THEN [action |-> Response(SentinelText), extracted |-> seen]
    ELSE LET rule == rs[i]
             hit == SubstringOf(rule.pattern, t) /\ rule.tool_name \in avail
             later == RuleScan_LastWins(rs, i + 1, t, avail,
                                        IF hit THEN Append(seen, i) ELSE seen)
         IN IF hit /\ ~ExtractorRaises(rule, t) /\ later.action.type # "tool_call"
            THEN [action |-> ToolCall(rule.tool_name, ExtractorResult(rule, t)),
                  extracted |-> later.extracted]
            ELSE later

\* RuleScan that answers with the failure when an extractor raises
RECURSIVE RuleScan_AnswersOnFailure(_, _, _, _, _)
RuleScan_AnswersOnFailure(rs, i, t, avail, seen) ==
    IF i > Len(rs)
    THEN [action |-> Response(SentinelText), extracted |-> seen]
    ELSE LET rule == rs[i]
         IN IF SubstringOf(rule.pattern, t)
            THEN IF rule.tool_name \in avail
                 THEN IF ExtractorRaises(rule, t)
                      THEN [action |-> Response(<<"extractor_failed">>),
                            extracted |-> Append(seen, i)]
                      ELSE [action |-> ToolCall(rule.tool_name, ExtractorResult(rule, t)),
                            extracted |-> Append(seen, i)]
                 ELSE RuleScan_AnswersOnFailure(rs, i + 1, t, avail, seen)
            ELSE RuleScan_AnswersOnFailure(rs, i + 1, t, avail, seen)

RECURSIVE RuleScan(_, _, _, _, _)
RuleScan(rs, i, t, avail, seen) ==
    IF i > Len(rs)
    THEN [action |-> Response(SentinelText), extracted |-> seen]
    ELSE LET rule == rs[i]
         IN IF SubstringOf(rule.pattern, t)
            THEN IF rule.tool_name \in avail
                 THEN IF ExtractorRaises(rule, t)
                      THEN RuleScan(rs, i + 1, t, avail, Append(seen, i))
                      ELSE [action |-> ToolCall(rule.tool_name, ExtractorResult(rule, t)),
                            extracted |-> Append(seen, i)]
                 ELSE RuleScan(rs, i + 1, t, avail, seen)
            ELSE RuleScan(rs, i + 1, t, avail, seen)

RuleBasedDecide(rs, t, avail) == RuleScan(rs, 1, t, avail, <<>>)

\* a rule engine other than the built-in one may return any Decision
CustomRuleDecisions ==
    {ToolCall(n, EmptyParams) : n \in ToolNames \cup {None}}
    \cup {Response(t) : t \in {<<"answer">>, SentinelText, <<"answer", MarkerTok>>}}

\* --------------------------------------------------- HybridDecisionEngine
\* HybridBranch with the availability test inverted
HybridBranch_InvertedAvailability(ra, avail) ==
    IF ra.type = "tool_call" /\ ra.tool_name \notin avail THEN "accept_tool_call"
    ELSE IF ra.type = "response" /\ ~SubstringOf(SentinelMarker, ra.response)
         THEN "accept_response"
         ELSE "escalate"

\* HybridBranch without the sentinel test: every Response is accepted
HybridBranch_NoSentinelTest(ra, avail) ==
    IF ra.type = "tool_call" /\ ra.tool_name \in avail THEN "accept_tool_call"
    ELSE IF ra.type = "response" THEN "accept_response"
         ELSE "escalate"

\* HybridBranch that also escalates when the rule engine answered directly
HybridBranch_EscalateResponses(ra, avail) ==
    IF ra.type = "tool_call" /\ ra.tool_name \in avail THEN "accept_tool_call"
    ELSE "escalate"

\* HybridBranch that accepts every ToolCall of the rule engine
HybridBranch_NoAvailabilityTest(ra, avail) ==
    IF ra.type = "tool_call" THEN "accept_tool_call"
    ELSE IF ra.type = "response" /\ ~SubstringOf(SentinelMarker, ra.response)
         THEN "accept_response"
         ELSE "escalate"

HybridBranch(ra, avail) ==
    IF ra.type = "tool_call" /\ ra.tool_name \in avail THEN "accept_tool_call"
    ELSE IF ra.type = "response" /\ ~SubstringOf(SentinelMarker, ra.response)
         THEN "accept_response"
         ELSE "escalate"

\* HybridReturn that re-validates the planner's ToolCall against the registry
HybridReturn_Revalidated(la, avail) ==
    IF la.type = "tool_call" /\ la.tool_name \notin avail
    THEN Response(<<"unknown_tool">>)
    ELSE la

HybridReturn(la, avail) == la

\* what the Model Planner may decide (its reply comes from the reasoning service)
PlannerDecisions ==
    {ToolCall(n, p) : n \in ToolNames \cup {None},
                      p \in {EmptyParams, CommandParams(<<"x">>)}}
    \cup {Response(<<"answer">>), Action("other", None, NoneParams, NoneText)}
    \cup {Response(<<"llm_api_failed">>), Response(<<"llm_no_valid_response">>)}
    \cup {ToolCall("execute_command", {<<"command", <<"x">>>>, <<"timeout", <<"2">>>>})}

\* the Responses the Model Planner returns when the call of the service
\* failed or its reply could not be used
PlannerFailures ==
    {Response(<<"llm_api_failed">>), Response(<<"llm_no_valid_response">>)}

\* the arguments field of the function call in the reply of the service
ReplyArguments == {"json_object", "not_json", "absent", "null"}

\* json.loads(tool_call.get("arguments", "{}")) under except JSONDecodeError:
\* a missing field defaults to "{}", text that is not JSON gives {}, and a
\* null field gives json.loads(None), a TypeError that is not caught
ArgumentsOutcome(a) ==
    CASE a = "json_object" -> "params"
      [] a = "not_json" -> "empty_params"
      [] a = "absent" -> "empty_params"
      [] OTHER -> "TypeError"

\* ------------------------------------------------------------ ToolRegistry
NoRet == [op |-> "None", name |-> None, value |-> None, prev |-> None,
          result |-> None, raised |-> None]

Lookup(name) == IF name \in DOMAIN tools THEN tools[name] ELSE None

\* the object ToolRegistry.__new__ creates when there is no instance yet
TheRegistry == "registry_1"
\* an object that is not the instance created first
AnotherRegistry == "registry_2"

EmptyTools == [n \in {} |-> None]

\* ToolRegistry() without the hasattr test in __init__: _tools is reset
ConstructRegistry_AlwaysInit ==
    /\ pc = "Idle"
    /\ instance' = IF instance = None THEN TheRegistry ELSE instance
    /\ tools' = EmptyTools
    /\ initialized' = TRUE
    /\ ret' = [op |-> "ToolRegistry", name |-> None, value |-> None,
               prev |-> instance, result |-> instance', raised |-> None]
    /\ UNCHANGED <<componentVars, rules, rule_engine, taskVars>>

\* ToolRegistry() without the `_instance is None` test in __new__: every
\* construction makes a new object with an empty _tools
ConstructRegistry_AlwaysNew ==
    /\ pc = "Idle"
    /\ instance' = IF instance = TheRegistry THEN AnotherRegistry ELSE TheRegistry
    /\ tools' = EmptyTools
    /\ initialized' = TRUE
    /\ ret' = [op |-> "ToolRegistry", name |-> None, value |-> None,
               prev |-> instance, result |-> instance', raised |-> None]
    /\ UNCHANGED <<componentVars, rules, rule_engine, taskVars>>

\* ToolRegistry(): __new__ then __init__
ConstructRegistry ==
    /\ pc = "Idle"
    /\ LET fresh == instance = None
           inst == IF fresh THEN TheRegistry ELSE instance
           after_new == IF fresh THEN EmptyTools ELSE tools
           first_init == fresh \/ ~initialized
       IN /\ instance' = inst
          /\ tools' = IF first_init THEN EmptyTools ELSE after_new
          /\ initialized' = TRUE
          /\ ret' = [op |-> "ToolRegistry", name |-> None, value |-> None,
                     prev |-> instance, result |-> inst, raised |-> None]
    /\ UNCHANGED <<componentVars, rules, rule_engine, taskVars>>

\* register_tool that keeps an existing binding (dict.setdefault)
RegisterTool_KeepFirst(name, value) ==
    /\ pc = "Idle"
    /\ instance # None
    /\ IF ~Callable(value)
       THEN /\ ret' = [op |-> "register_tool", name |-> name, value |-> value,
                       prev |-> Lookup(name), result |-> None, raised |-> "TypeError"]
            /\ UNCHANGED tools
       ELSE /\ tools' = [n \in DOMAIN tools \cup {name} |->
                            IF n \in DOMAIN tools THEN tools[n] ELSE value]
            /\ ret' = [op |-> "register_tool", name |-> name, value |-> value,
                       prev |-> Lookup(name), result |-> None, raised |-> None]
    /\ UNCHANGED <<componentVars, instance, initialized, rules, rule_engine, taskVars>>

\* register_tool that stores the value before it tests callable()
RegisterTool_StoreThenTest(name, value) ==
    /\ pc = "Idle"
    /\ instance # None
    /\ tools' = [n \in DOMAIN tools \cup {name} |->
                    IF n = name THEN value ELSE tools[n]]
    /\ ret' = [op |-> "register_tool", name |-> name, value |-> value,
               prev |-> Lookup(name), result |-> None,
               raised |-> IF Callable(value) THEN None ELSE "TypeError"]
    /\ UNCHANGED <<componentVars, instance, initialized, rules, rule_engine, taskVars>>

\* register_tool(tool_name, tool_func)
RegisterTool(name, value) ==
    /\ pc = "Idle"
    /\ instance # None
    /\ IF ~Callable(value)
       THEN /\ ret' = [op |-> "register_tool", name |-> name, value |-> value,
                       prev |-> Lookup(name), result |-> None, raised |-> "TypeError"]
            /\ UNCHANGED tools
       ELSE /\ tools' = [n \in DOMAIN tools \cup {name} |->
                            IF n = name THEN value ELSE tools[n]]
            /\ ret' = [op |-> "register_tool", name |-> name, value |-> value,
                       prev |-> Lookup(name), result |-> None, raised |-> None]
    /\ UNCHANGED <<componentVars, instance, initialized, rules, rule_engine, taskVars>>

\* get_tool(tool_name)
GetTool(name) ==
    /\ pc = "Idle"
    /\ instance # None
    /\ ret' = [op |-> "get_tool", name |-> name, value |-> None,
               prev |-> Lookup(name), result |-> Lookup(name), raised |-> None]
    /\ UNCHANGED <<componentVars, registryVars, rules, rule_engine, taskVars>>

\* get_tool_signature(tool_name)
GetToolSignature(name) ==
    /\ pc = "Idle"
    /\ instance # None
    /\ LET tool_func == Lookup(name)
       IN ret' = [op |-> "get_tool_signature", name |-> name, value |-> None,
                  prev |-> Lookup(name),
                  result |-> IF Truthy(tool_func) /\ HasSignature(tool_func)
                             THEN "params_info" ELSE None,
                  raised |-> IF ~Truthy(tool_func) THEN "ValueError: not registered"
                             ELSE IF ~HasSignature(tool_func)
                                  THEN "ValueError: no signature found"
                                  ELSE None]
    /\ UNCHANGED <<componentVars, registryVars, rules, rule_engine, taskVars>>

\* ---------------------------------------- RuleBasedDecisionEngine.add_rule
AddRule(pattern, tool_name, params_extractor) ==
    /\ pc = "Idle"
    /\ Len(rules) < MaxRules
    /\ rules' = Append(rules, [pattern |-> pattern, tool_name |-> tool_name,
                               params_extractor |-> params_extractor])
    /\ UNCHANGED <<componentVars, registryVars, rule_engine, taskVars, ret>>

\* ------------------------------------------------------ AutonomousAgent.run
\* what a capability can return, and str() of it
ReturnValues == {[type |-> "int", repr |-> "8"], [type |-> "str", repr |-> "8"]}

NoValue == [type |-> "NoneType", repr |-> "None"]

Str(v) == [type |-> "str", repr |-> v.repr]

\* str(e) of what a capability raises; an exception may carry no message
Causes == {<<"boom">>, <<>>}

\* the details dict of an audit entry: the keys the claims read
Details(tool_name, tool_params, res) ==
    [tool_name |-> tool_name, tool_params |-> tool_params, result |-> res]

NoDetails == Details(None, NoneParams, NoValue)

\* the entry log_action appends; error is NoneText when no error is given
Entry(action_type, status, error, details) ==
    [action_type |-> action_type, status |-> status, error |-> error,
     details |-> details]

\* what run returns: a text, or the value of a capability
Outcome(outcome, tool_name, text) ==
    [outcome |-> outcome, tool_name |-> tool_name, text |-> text, value |-> NoValue]

ValueOutcome(tool_name, v) ==
    [outcome |-> "tool_value", tool_name |-> tool_name, text |-> NoneText, value |-> v]

NoResult == Outcome("None", None, NoneText)

\* a call of a capability or of the sandbox: at is the number of audit
\* entries written when the call starts, returned is the value the
\* capability returned (NoValue when it raised)
Effect(kind, tool_name, command, tool_params, at, returned) ==
    [kind |-> kind, tool_name |-> tool_name, command |-> command,
     tool_params |-> tool_params, at |-> at, returned |-> returned]

\* the error messages run builds
UnregisteredMsg(tool_name) == <<"unregistered_tool", tool_name>>

ToolFailedMsg(tool_name, cause) == <<"tool_failed", tool_name>> \o cause

CommandFailedMsg == <<"command_failed", "returncode", "error">>

UnknownTypeMsg(type) == <<"unknown_action_type", type>>

CommandRequired == <<"execute_command_needs_command">>

SandboxRaised == <<"sandbox_error">>

\* dict.get(key) on a parameter dict; NoneText when the key is absent
ParamGet(params, key) ==
    IF \E kv \in params : kv[1] = key
    THEN (CHOOSE kv \in params : kv[1] = key)[2]
    ELSE NoneText

\* tool_params = action.tool_params if action.tool_params is not None else {}
ParamsOrEmpty(a) == IF a.tool_params = NoneParams THEN EmptyParams ELSE a.tool_params

\* the truth value of tool_params.get("command")
CommandGiven(params) ==
    ParamGet(params, "command") # NoneText /\ ParamGet(params, "command") # <<>>

\* timeout = tool_params.get("timeout", 60)
DefaultTimeout == <<"60">>

TimeoutOf(params) ==
    IF \E kv \in params : kv[1] = "timeout"
    THEN (CHOOSE kv \in params : kv[1] = "timeout")[2]
    ELSE DefaultTimeout

\* -------------------------------------------------------------- AuditLogger
\* the arguments of log_action: details is None, a dict of JSON values, a
\* dict that holds a tuple, or a dict that holds a value json cannot encode
DetailsArgs == {"None", "dict", "dict_with_tuple", "unserializable"}

LogArg(action_type, description, details, status, error) ==
    [action_type |-> action_type, description |-> description,
     details |-> details, status |-> status, error |-> error]

LogArgs ==
    {LogArg("user_input", "d1", "None", "info", None),
     LogArg("tool_result", "d2", "dict", "success", None),
     LogArg("tool_result", "d3", "dict_with_tuple", "error", "boom"),
     LogArg("decision", "d4", "unserializable", "info", None)}

\* the log_entry dict that log_action builds; ts stands for datetime.now()
LogEntry(ts, a) ==
    [timestamp |-> ts, action_type |-> a.action_type,
     description |-> a.description, status |-> a.status,
     details |-> IF a.details = "None" THEN "empty_dict" ELSE a.details,
     error |-> a.error]

NoEntry == [timestamp |-> 0, action_type |-> None, description |-> None,
            status |-> None, details |-> None, error |-> None]

\* json.dumps raises TypeError for a value it cannot encode
DumpsRaises(entry) == entry.details = "unserializable"

\* json.dumps(entry) + '\n': a tuple is written as a JSON array.  at is the
\* length of the file when it was opened, which mode 'a' does not use
Line(kind, text, at) == [kind |-> kind, text |-> text, at |-> at]

Dumps(entry, at) ==
    Line("json",
         [entry EXCEPT !.details = IF @ = "dict_with_tuple" THEN "dict_with_list" ELSE @],
         at)

NoLine == Line("None", NoEntry, 0)

\* json.loads(line) of get_logs; a line that is not JSON is skipped
LoadsRaises(line) == line.kind # "json"

Loads(line) == line.text

RECURSIVE ReadLines(_)
ReadLines(file) ==
    IF file = <<>> THEN <<>>
    ELSE LET line == file[Len(file)]
             before == ReadLines(SubSeq(file, 1, Len(file) - 1))
         IN IF LoadsRaises(line) THEN before ELSE Append(before, Loads(line))

\* the threads that may call log_action
Writers == {"t1", "t2"}

LogPaths == {"logs/agent_audit.log", "other.log"}

\* the logger and its file: path is _log_file_path, disk tells whether the
\* file can be written and read, file holds the lines, emitted the entries
\* handed to _write_log with the thread that made them, pending the line a
\* thread has built and not yet written, logs what get_logs returned last
NoSink ==
    [path |-> "logs/agent_audit.log", disk |-> "ok", file |-> <<>>,
     emitted |-> <<>>, pending |-> [w \in Writers |-> NoLine], logs |-> <<>>,
     op |-> None, raised |-> None]

\* the entries of s kept by mask, in order
RECURSIVE Keep(_, _)
Keep(s, mask) ==
    IF s = <<>> THEN <<>>
    ELSE LET before == Keep(SubSeq(s, 1, Len(s) - 1), mask)
         IN IF Len(s) \in mask THEN Append(before, s[Len(s)]) ELSE before

\* _write_log that records a failed write once the file can be written again
WriteLog_RecordsFailure(old, new) ==
    IF sink.disk = "ok" THEN {new}
    ELSE {old \o Keep(SubSeq(new, Len(old) + 1, Len(new)), mask)
             \o <<[action_type |-> "write_failed", status |-> "error",
                   error |-> <<"IOError">>,
                   details |-> new[Len(new)].details]>> :
          mask \in SUBSET (1 .. (Len(new) - Len(old)))}

\* the audit trail after the log_action calls of one step of run, which
\* would make it new: a call whose write fails with IOError leaves the file
\* as it was and returns
WriteLog(old, new) ==
    IF sink.disk = "ok" THEN {new}
    ELSE {old \o Keep(SubSeq(new, Len(old) + 1, Len(new)), mask) :
          mask \in SUBSET (1 .. (Len(new) - Len(old)))}

DecisionEntry ==
    Entry("decision", "info", NoneText,
          Details(action.tool_name, action.tool_params, NoValue))

UserInputEntry == Entry("user_input", "info", NoneText, NoDetails)

\* run is entered: the user_input entry is logged; limit caps the number of tasks
RunTask(t, limit) ==
    /\ pc = "Idle"
    /\ instance # None
    /\ tasksRun < limit
    /\ tasksRun' = tasksRun + 1
    /\ task' = t
    /\ audit' \in WriteLog(audit, Append(audit, UserInputEntry))
    /\ pc' = "Received"
    /\ ret' = NoRet
    /\ UNCHANGED <<componentVars, registryVars, rules, rule_engine, rule_action, llm_action, action,
                   calls, extracted, effects, result>>

Run(t) == RunTask(t, MaxTasks)

\* a rule engine that remembers the session: once a task has been decided,
\* later tasks get the sentinel
RuleEvaluate_RemembersTasks ==
    /\ pc = "Received"
    /\ rule_engine = "builtin"
    /\ LET d == IF tasksRun > 1
                THEN [action |-> Response(SentinelText), extracted |-> <<>>]
                ELSE RuleBasedDecide(rules, task, Available)
       IN /\ rule_action' = d.action
          /\ extracted' = d.extracted
    /\ calls' = Append(calls, "rule_engine")
    /\ pc' = "RuleEvaluated"
    /\ UNCHANGED <<componentVars, registryVars, rules, rule_engine, task, llm_action, action, effects,
                   result, audit, tasksRun, ret>>

\* HybridDecisionEngine.decide asks the built-in rule engine
RuleEvaluate ==
    /\ pc = "Received"
    /\ rule_engine = "builtin"
    /\ LET d == RuleBasedDecide(rules, task, Available)
       IN /\ rule_action' = d.action
          /\ extracted' = d.extracted
    /\ calls' = Append(calls, "rule_engine")
    /\ pc' = "RuleEvaluated"
    /\ UNCHANGED <<componentVars, registryVars, rules, rule_engine, task, llm_action, action, effects,
                   result, audit, tasksRun, ret>>

\* HybridDecisionEngine.decide asks a rule engine that overrides decide
CustomRuleEvaluate(d) ==
    /\ pc = "Received"
    /\ rule_engine = "custom"
    /\ rule_action' = d
    /\ calls' = Append(calls, "rule_engine")
    /\ pc' = "RuleEvaluated"
    /\ UNCHANGED <<componentVars, registryVars, rules, rule_engine, task, llm_action, action, extracted,
                   effects, result, audit, tasksRun, ret>>

\* the rule engine's ToolCall names an available capability: accepted
HybridAcceptToolCall ==
    /\ pc = "RuleEvaluated"
    /\ HybridBranch(rule_action, Available) = "accept_tool_call"
    /\ action' = rule_action
    /\ pc' = "Decided"
    /\ UNCHANGED <<componentVars, registryVars, rules, rule_engine, task, rule_action, llm_action, calls,
                   extracted, effects, result, audit, tasksRun, ret>>

\* the rule engine's Response is not the sentinel: accepted
HybridAcceptResponse ==
    /\ pc = "RuleEvaluated"
    /\ HybridBranch(rule_action, Available) = "accept_response"
    /\ action' = rule_action
    /\ pc' = "Decided"
    /\ UNCHANGED <<componentVars, registryVars, rules, rule_engine, task, rule_action, llm_action, calls,
                   extracted, effects, result, audit, tasksRun, ret>>

\* otherwise the Model Planner decides, and its decision is returned
HybridEscalate(d) ==
    /\ pc = "RuleEvaluated"
    /\ HybridBranch(rule_action, Available) = "escalate"
    /\ llm_action' = d
    /\ calls' = Append(calls, "llm_engine")
    /\ action' = HybridReturn(d, Available)
    /\ pc' = "Decided"
    /\ UNCHANGED <<componentVars, registryVars, rules, rule_engine, task, rule_action, extracted, effects,
                   result, audit, tasksRun, ret>>

\* run without the status argument of the error entry
ExecUnregistered_StatusInfo ==
    /\ pc = "Decided"
    /\ action.type = "tool_call"
    /\ action.tool_name \notin Available
    /\ audit' = audit \o
          <<DecisionEntry,
            Entry("error", "info", UnregisteredMsg(action.tool_name),
                  Details(action.tool_name, ParamsOrEmpty(action), NoValue))>>
    /\ result' = Outcome("error_unregistered", action.tool_name,
                         UnregisteredMsg(action.tool_name))
    /\ pc' = "Terminal"
    /\ UNCHANGED <<componentVars, registryVars, rules, rule_engine, task, rule_action, llm_action, action,
                   calls, extracted, effects, tasksRun, ret>>

\* the Model Planner raises while it reads the reply: HybridDecisionEngine.decide
\* and run have no handler around the call, so the exception leaves run
HybridEscalateRaises(a) ==
    /\ pc = "RuleEvaluated"
    /\ HybridBranch(rule_action, Available) = "escalate"
    /\ ArgumentsOutcome(a) = "TypeError"
    /\ calls' = Append(calls, "llm_engine")
    /\ pc' = "Raised"
    /\ UNCHANGED <<componentVars, registryVars, rules, rule_engine, task, rule_action, llm_action, action,
                   extracted, effects, result, audit, tasksRun, ret>>

\* the decision is a ToolCall for a name that is not in the registry
ExecUnregistered ==
    /\ pc = "Decided"
    /\ action.type = "tool_call"
    /\ action.tool_name \notin Available
    /\ audit' \in WriteLog(audit, audit \o
          <<DecisionEntry,
            Entry("error", "error", UnregisteredMsg(action.tool_name),
                  Details(action.tool_name, ParamsOrEmpty(action), NoValue))>>)
    /\ result' = Outcome("error_unregistered", action.tool_name,
                         UnregisteredMsg(action.tool_name))
    /\ pc' = "Terminal"
    /\ UNCHANGED <<componentVars, registryVars, rules, rule_engine, task, rule_action, llm_action, action,
                   calls, extracted, effects, tasksRun, ret>>

\* execute_command without a command: the ValueError is raised before the
\* tool_call entry is logged, and caught by run
ExecCommandMissing ==
    /\ pc = "Decided"
    /\ action.type = "tool_call"
    /\ action.tool_name \in Available
    /\ action.tool_name = "execute_command"
    /\ ~CommandGiven(ParamsOrEmpty(action))
    /\ audit' \in WriteLog(audit, audit \o
          <<DecisionEntry,
            Entry("tool_result", "error",
                  ToolFailedMsg(action.tool_name, CommandRequired),
                  Details(action.tool_name, ParamsOrEmpty(action), NoValue))>>)
    /\ result' = Outcome("error_tool_failed", action.tool_name,
                         ToolFailedMsg(action.tool_name, CommandRequired))
    /\ pc' = "Terminal"
    /\ UNCHANGED <<componentVars, registryVars, rules, rule_engine, task, rule_action, llm_action, action,
                   calls, extracted, effects, tasksRun, ret>>

\* the number of entries in the file when the capability or the sandbox is
\* called: those of log but the tool_result entry that follows the call
WrittenBeforeCall(log) ==
    Cardinality({k \in DOMAIN log : k <= Len(audit) \/ log[k].action_type # "tool_result"})

\* execute_command runs through the sandbox
SandboxOutcomes == {"success", "failure", "raises"}

\* the entry and the returned text that end an execute_command call
CommandCompletion(o, tool_name, params) ==
    CASE o = "success" ->
           [entry |-> Entry("tool_result", "success", NoneText,
                            Details(tool_name, NoneParams, NoValue)),
            result |-> Outcome("command_ok", tool_name, <<"command_ok", "output">>)]
      [] o = "failure" ->
           [entry |-> Entry("tool_result", "error", CommandFailedMsg,
                            Details(tool_name, NoneParams, NoValue)),
            result |-> Outcome("error_command_failed", tool_name, CommandFailedMsg)]
      [] OTHER ->
           [entry |-> Entry("tool_result", "error",
                            ToolFailedMsg(tool_name, SandboxRaised),
                            Details(tool_name, params, NoValue)),
            result |-> Outcome("error_tool_failed", tool_name,
                               ToolFailedMsg(tool_name, SandboxRaised))]

\* run that always gives the sandbox the default timeout
ExecCommand_DefaultTimeout(o) ==
    /\ pc = "Decided"
    /\ action.type = "tool_call"
    /\ action.tool_name \in Available
    /\ action.tool_name = "execute_command"
    /\ CommandGiven(ParamsOrEmpty(action))
    /\ LET params == ParamsOrEmpty(action)
           called == audit \o
              <<DecisionEntry,
                Entry("tool_call", "info", NoneText,
                      Details(action.tool_name, NoneParams, NoValue))>>
           done == CommandCompletion(o, action.tool_name, params)
       IN /\ effects' = Append(effects,
                 Effect("sandbox", action.tool_name, ParamGet(params, "command"),
                        {<<"timeout", DefaultTimeout>>}, Len(called), NoValue))
          /\ audit' = Append(called, done.entry)
          /\ result' = done.result
    /\ pc' = "Terminal"
    /\ UNCHANGED <<componentVars, registryVars, rules, rule_engine, task, rule_action, llm_action, action,
                   calls, extracted, tasksRun, ret>>

\* run without the tool_result entry of a successful command
ExecCommand_NoResultEntry(o) ==
    /\ pc = "Decided"
    /\ action.type = "tool_call"
    /\ action.tool_name \in Available
    /\ action.tool_name = "execute_command"
    /\ CommandGiven(ParamsOrEmpty(action))
    /\ LET params == ParamsOrEmpty(action)
           called == audit \o
              <<DecisionEntry,
                Entry("tool_call", "info", NoneText,
                      Details(action.tool_name, NoneParams, NoValue))>>
           done == CommandCompletion(o, action.tool_name, params)
       IN /\ effects' = Append(effects,
                 Effect("sandbox", action.tool_name, ParamGet(params, "command"),
                        {<<"timeout", TimeoutOf(params)>>}, Len(called), NoValue))
          /\ audit' = IF o = "success" THEN called ELSE Append(called, done.entry)
          /\ result' = done.result
    /\ pc' = "Terminal"
    /\ UNCHANGED <<componentVars, registryVars, rules, rule_engine, task, rule_action, llm_action, action,
                   calls, extracted, tasksRun, ret>>

ExecCommand(o) ==
    /\ pc = "Decided"
    /\ action.type = "tool_call"
    /\ action.tool_name \in Available
    /\ action.tool_name = "execute_command"
    /\ CommandGiven(ParamsOrEmpty(action))
    /\ LET params == ParamsOrEmpty(action)
           called == audit \o
              <<DecisionEntry,
                Entry("tool_call", "info", NoneText,
                      Details(action.tool_name, NoneParams, NoValue))>>
           done == CommandCompletion(o, action.tool_name, params)
       IN /\ audit' \in WriteLog(audit, Append(called, done.entry))
          /\ effects' = Append(effects,
                 Effect("sandbox", action.tool_name, ParamGet(params, "command"),
                        {<<"timeout", TimeoutOf(params)>>}, WrittenBeforeCall(audit'),
                        NoValue))
          /\ result' = done.result
    /\ pc' = "Terminal"
    /\ UNCHANGED <<componentVars, registryVars, rules, rule_engine, task, rule_action, llm_action, action,
                   calls, extracted, tasksRun, ret>>

\* any other registered capability is called directly
ToolOutcomes == {"returns", "raises"}

\* the entry and the value that end a direct call: v is what the capability
\* returned, cause is str() of what it raised
DirectCompletion(o, tool_name, params, v, cause) ==
    IF o = "returns"
    THEN [entry |-> Entry("tool_result", "success", NoneText,
                          Details(tool_name, NoneParams, Str(v))),
          result |-> ValueOutcome(tool_name, v)]
    ELSE [entry |-> Entry("tool_result", "error", ToolFailedMsg(tool_name, cause),
                          Details(tool_name, params, NoValue)),
          result |-> Outcome("error_tool_failed", tool_name,
                             ToolFailedMsg(tool_name, cause))]

\* run without the try around the call: what the capability raises leaves run
ExecDirect_Propagates(o) ==
    /\ pc = "Decided"
    /\ action.type = "tool_call"
    /\ action.tool_name \in Available
    /\ action.tool_name # "execute_command"
    /\ \E v \in ReturnValues, cause \in Causes :
         LET params == ParamsOrEmpty(action)
             called == audit \o
                <<DecisionEntry,
                  Entry("tool_call", "info", NoneText,
                        Details(action.tool_name, params, NoValue))>>
             done == DirectCompletion(o, action.tool_name, params, v, cause)
         IN /\ effects' = Append(effects,
                   Effect("tool", action.tool_name, NoneText, params, Len(called),
                          IF o = "returns" THEN v ELSE NoValue))
            /\ audit' = IF o = "returns" THEN Append(called, done.entry) ELSE called
            /\ result' = IF o = "returns" THEN done.result ELSE result
            /\ pc' = IF o = "returns" THEN "Terminal" ELSE "Raised"
    /\ UNCHANGED <<componentVars, registryVars, rules, rule_engine, task, rule_action, llm_action, action,
                   calls, extracted, tasksRun, ret>>

\* run that returns str(result), the text it logs, instead of result
ExecDirect_ReturnsStr(o) ==
    /\ pc = "Decided"
    /\ action.type = "tool_call"
    /\ action.tool_name \in Available
    /\ action.tool_name # "execute_command"
    /\ \E v \in ReturnValues, cause \in Causes :
         LET params == ParamsOrEmpty(action)
             called == audit \o
                <<DecisionEntry,
                  Entry("tool_call", "info", NoneText,
                        Details(action.tool_name, params, NoValue))>>
             done == DirectCompletion(o, action.tool_name, params, v, cause)
         IN /\ effects' = Append(effects,
                   Effect("tool", action.tool_name, NoneText, params, Len(called),
                          IF o = "returns" THEN v ELSE NoValue))
            /\ audit' = Append(called, done.entry)
            /\ result' = IF o = "returns"
                         THEN ValueOutcome(action.tool_name, Str(v))
                         ELSE done.result
    /\ pc' = "Terminal"
    /\ UNCHANGED <<componentVars, registryVars, rules, rule_engine, task, rule_action, llm_action, action,
                   calls, extracted, tasksRun, ret>>

\* run without the execute_command branch: the registered callable is called
\* for every capability name
ExecDirect_AnyName(o) ==
    /\ pc = "Decided"
    /\ action.type = "tool_call"
    /\ action.tool_name \in Available
    /\ \E v \in ReturnValues, cause \in Causes :
         LET params == ParamsOrEmpty(action)
             called == audit \o
                <<DecisionEntry,
                  Entry("tool_call", "info", NoneText,
                        Details(action.tool_name, params, NoValue))>>
             done == DirectCompletion(o, action.tool_name, params, v, cause)
         IN /\ effects' = Append(effects,
                   Effect("tool", action.tool_name, NoneText, params, Len(called),
                          IF o = "returns" THEN v ELSE NoValue))
            /\ audit' = Append(called, done.entry)
            /\ result' = done.result
    /\ pc' = "Terminal"
    /\ UNCHANGED <<componentVars, registryVars, rules, rule_engine, task, rule_action, llm_action, action,
                   calls, extracted, tasksRun, ret>>

ExecDirect(o) ==
    /\ pc = "Decided"
    /\ action.type = "tool_call"
    /\ action.tool_name \in Available
    /\ action.tool_name # "execute_command"
    /\ \E v \in ReturnValues, cause \in Causes :
         LET params == ParamsOrEmpty(action)
             called == audit \o
                <<DecisionEntry,
                  Entry("tool_call", "info", NoneText,
                        Details(action.tool_name, params, NoValue))>>
             done == DirectCompletion(o, action.tool_name, params, v, cause)
         IN /\ audit' \in WriteLog(audit, Append(called, done.entry))
            /\ effects' = Append(effects,
                   Effect("tool", action.tool_name, NoneText, params,
                          WrittenBeforeCall(audit'),
                          IF o = "returns" THEN v ELSE NoValue))
            /\ result' = done.result
    /\ pc' = "Terminal"
    /\ UNCHANGED <<componentVars, registryVars, rules, rule_engine, task, rule_action, llm_action, action,
                   calls, extracted, tasksRun, ret>>

\* run that logs the text of a Response as a result
ExecResponse_LogsResult ==
    /\ pc = "Decided"
    /\ action.type = "response"
    /\ audit' = audit \o <<DecisionEntry,
                           Entry("tool_result", "success", NoneText, NoDetails)>>
    /\ result' = Outcome("response", None, action.response)
    /\ pc' = "Terminal"
    /\ UNCHANGED <<componentVars, registryVars, rules, rule_engine, task, rule_action, llm_action, action,
                   calls, extracted, effects, tasksRun, ret>>

\* a Response is returned verbatim
ExecResponse ==
    /\ pc = "Decided"
    /\ action.type = "response"
    /\ audit' \in WriteLog(audit, Append(audit, DecisionEntry))
    /\ result' = Outcome("response", None, action.response)
    /\ pc' = "Terminal"
    /\ UNCHANGED <<componentVars, registryVars, rules, rule_engine, task, rule_action, llm_action, action,
                   calls, extracted, effects, tasksRun, ret>>

\* run without the error argument of the unknown-type entry
ExecUnknownType_NoError ==
    /\ pc = "Decided"
    /\ action.type \notin {"tool_call", "response"}
    /\ audit' = audit \o <<DecisionEntry,
                           Entry("error", "error", NoneText, NoDetails)>>
    /\ result' = Outcome("error_unknown_type", None, UnknownTypeMsg(action.type))
    /\ pc' = "Terminal"
    /\ UNCHANGED <<componentVars, registryVars, rules, rule_engine, task, rule_action, llm_action, action,
                   calls, extracted, effects, tasksRun, ret>>

\* a decision of any other type is reported as an error
ExecUnknownType ==
    /\ pc = "Decided"
    /\ action.type \notin {"tool_call", "response"}
    /\ audit' \in WriteLog(audit, audit \o <<DecisionEntry,
                           Entry("error", "error", UnknownTypeMsg(action.type),
                                 NoDetails)>>)
    /\ result' = Outcome("error_unknown_type", None, UnknownTypeMsg(action.type))
    /\ pc' = "Terminal"
    /\ UNCHANGED <<componentVars, registryVars, rules, rule_engine, task, rule_action, llm_action, action,
                   calls, extracted, effects, tasksRun, ret>>

\* run has returned: the task's Decision and Outcome are discarded
Return ==
    /\ pc = "Terminal"
    /\ pc' = "Idle"
    /\ task' = <<>>
    /\ rule_action' = NoAction
    /\ llm_action' = NoAction
    /\ action' = NoAction
    /\ calls' = <<>>
    /\ extracted' = <<>>
    /\ effects' = <<>>
    /\ result' = NoResult
    /\ UNCHANGED <<componentVars, registryVars, rules, rule_engine, audit, tasksRun, ret>>

\* ------------------------------------------------- Sandbox.execute_command
\* what a command writes to a stream, and str.strip() / bytes.strip() of it
RawOutputs == {"", "a\n"}

Strip(data) == IF data = "a\n" THEN "a" ELSE data

\* a captured stream: text, bytes, or None
Captured(type, data) == [type |-> type, data |-> data]

NoCapture == Captured("NoneType", "None")

\* the returncode of a process: an exit status, or minus the number of the
\* signal that ended the shell
ExitCodes == (0 - MaxSignal .. 0 - 1) \cup (0 .. MaxExitCode)

NoCode == MaxExitCode + 1

\* the returncodes execute_command makes up
TimeoutCode == 0 - 1
NotFoundCode == 0 - 2
UnknownErrorCode == 0 - 3

\* what subprocess.run(..., capture_output=True, text=True, check=True) does.
\* A process that ends gives decoded text for both streams. On a timeout the
\* TimeoutExpired carries, for each stream, the bytes read so far, or None
\* when nothing was read.
Behaviours ==
    {[kind |-> "exited", code |-> c, stdout |-> Captured("str", o),
      stderr |-> Captured("str", e)] :
        c \in ExitCodes, o \in RawOutputs, e \in RawOutputs}
    \cup {[kind |-> "timeout", code |-> NoCode, stdout |-> o, stderr |-> e] :
            o \in {NoCapture, Captured("bytes", "a\n")},
            e \in {NoCapture, Captured("bytes", "a\n")}}
    \cup {[kind |-> k, code |-> NoCode, stdout |-> NoCapture, stderr |-> NoCapture] :
            k \in {"FileNotFoundError", "Exception"}}

\* x.strip() for a captured stream: None has no strip
StripRaises(x) == x.type = "NoneType"

Stripped(x) == Captured(x.type, Strip(x.data))

EmptyDict == [k \in {} |-> None]

EmptyStr == Captured("str", "")

\* the dict execute_command returns for a behaviour; EmptyDict when the
\* handler itself raises
SandboxReturn(b) ==
    CASE b.kind = "exited" /\ b.code = 0 ->
           [stdout |-> Stripped(b.stdout), stderr |-> Stripped(b.stderr),
            returncode |-> b.code, success |-> TRUE]
      [] b.kind = "exited" /\ b.code # 0 ->
           [stdout |-> Stripped(b.stdout), stderr |-> Stripped(b.stderr),
            returncode |-> b.code, success |-> FALSE, error |-> "command_failed"]
      [] b.kind = "timeout" ->
           IF StripRaises(b.stdout) \/ StripRaises(b.stderr)
           THEN EmptyDict
           ELSE [stdout |-> Stripped(b.stdout), stderr |-> Stripped(b.stderr),
                 returncode |-> TimeoutCode, success |-> FALSE,
                 error |-> "command_timed_out"]
      [] b.kind = "FileNotFoundError" ->
           [stdout |-> EmptyStr, stderr |-> EmptyStr, returncode |-> NotFoundCode,
            success |-> FALSE, error |-> "command_not_found"]
      [] OTHER ->
           [stdout |-> EmptyStr, stderr |-> EmptyStr, returncode |-> UnknownErrorCode,
            success |-> FALSE, error |-> "unknown_error"]

\* the exception that leaves execute_command, None when it returns
SandboxRaises(b) ==
    IF b.kind = "timeout" /\ (StripRaises(b.stdout) \/ StripRaises(b.stderr))
    THEN "AttributeError"
    ELSE None

Timeouts == {2, 60}

NoProc == [command |-> NoneText, timeout |-> 0, kind |-> None, code |-> NoCode,
           returned |-> EmptyDict, raised |-> None]

\* Sandbox.execute_command(command, timeout)
SandboxExecute(command, timeout, b) ==
    /\ proc' = [command |-> command, timeout |-> timeout, kind |-> b.kind,
                code |-> b.code, returned |-> SandboxReturn(b),
                raised |-> SandboxRaises(b)]
    /\ UNCHANGED <<registryVars, rules, rule_engine, taskVars, ret, llm, sink>>

\* ------------------------------------------------ LLMDecisionEngine.decide
\* max_retries
MaxRetries == 3

\* what client.chat.completions.create does: it returns a reply, raises an
\* error whose text names a rate limit ("429", "rate limit"), or raises
\* another error (a transport failure)
ServiceOutcomes == {"reply", "rate_limit", "error"}

\* a function entry of the reply: absent, an empty list, an entry without a
\* function, or a call with a name and an arguments field
Invocation(kind, name, arguments) ==
    [kind |-> kind, name |-> name, arguments |-> arguments]

NoInvocation == Invocation("absent", None, None)

ToolCallsValues ==
    {NoInvocation, Invocation("empty", None, None),
     Invocation("no_function", None, None)}
    \cup {Invocation("call", "calculator", a) : a \in ReplyArguments}

FunctionCallValues ==
    {NoInvocation}
    \cup {Invocation("call", "execute_command", a) : a \in ReplyArguments}

\* the content of the reply is a text made of segments: reasoning between
\* <think> tags, plain text, and JSON objects in braces
Segment(kind, data, arguments) ==
    [kind |-> kind, data |-> data, arguments |-> arguments]

Think == Segment("think", "reasoning", None)

Text(data) == Segment("text", data, None)

\* a JSON object in the content: data is what it holds
JsonShapes == {"object", "tool_calls", "delta_tool_calls", "tool_calls_no_function"}

Json(shape, arguments) == Segment("json", shape, arguments)

ContentValues ==
    {<<>>, <<Text("pre")>>, <<Think>>, <<Think, Text("pre")>>,
     <<Json("object", None)>>, <<Text("pre"), Json("object", None), Text("post")>>,
     <<Json("tool_calls_no_function", None), Text("post")>>,
     <<Text("pre"), Json("object", None), Text("mid"), Json("tool_calls", "json_object")>>,
     <<Think, Text("pre"), Json("delta_tool_calls", "json_object"), Text("post")>>}
    \cup {<<Json("tool_calls", a)>> : a \in ReplyArguments}

Reply(choices, tool_calls, function_call, content) ==
    [choices |-> choices, tool_calls |-> tool_calls,
     function_call |-> function_call, content |-> content]

NoReply == Reply(FALSE, NoInvocation, NoInvocation, <<>>)

Replies ==
    {NoReply}
    \cup {Reply(TRUE, tc, fc, c) :
            tc \in ToolCallsValues, fc \in FunctionCallValues, c \in ContentValues}

\* the truth value of message.get("tool_calls") / message.get("function_call")
InvocationGiven(i) == i.kind \in {"no_function", "call"}

\* re.sub(r'<think>.*?</think>', '', content_str)
RECURSIVE WithoutThink(_)
WithoutThink(c) ==
    IF c = <<>> THEN <<>>
    ELSE IF Head(c).kind = "think" THEN WithoutThink(Tail(c))
    ELSE <<Head(c)>> \o WithoutThink(Tail(c))

JsonAt(c) == {i \in DOMAIN c : c[i].kind = "json"}

\* find('{') and rfind('}'): the segments from the first brace to the last
JsonStart(c) == CHOOSE i \in JsonAt(c) : \A j \in JsonAt(c) : i <= j

JsonEnd(c) == CHOOSE i \in JsonAt(c) : \A j \in JsonAt(c) : j <= i

\* json.loads(json_part) succeeds when the part is one JSON object
JsonPartParses(c) == JsonAt(c) # {} /\ JsonStart(c) = JsonEnd(c)

\* the parsed object carries tool_calls with a function entry
EmbeddedCall(c) ==
    /\ JsonPartParses(c)
    /\ c[JsonStart(c)].data \in {"tool_calls", "delta_tool_calls"}

\* re.sub(r'\{.*\}', '', text).strip(): what is outside the braces
RECURSIVE TextData(_)
TextData(c) ==
    IF c = <<>> THEN <<>> ELSE <<Head(c).data>> \o TextData(Tail(c))

FreeText(c) ==
    LET clean == WithoutThink(c)
    IN IF JsonAt(clean) = {} THEN TextData(clean)
       ELSE TextData(SubSeq(clean, 1, JsonStart(clean) - 1))
            \o TextData(SubSeq(clean, JsonEnd(clean) + 1, Len(clean)))

\* the tool_params json.loads gives for an arguments field
ParsedParams(a) ==
    IF ArgumentsOutcome(a) = "params" THEN CommandParams(<<"x">>) ELSE EmptyParams

ApiFailed == Response(<<"llm_api_failed">>)

NoValidResponse == Response(<<"llm_no_valid_response">>)

Parsed(decision, raised) == [decision |-> decision, raised |-> raised]

\* the Action for a function entry, or the TypeError of json.loads(None)
FromInvocation(name, arguments) ==
    IF ArgumentsOutcome(arguments) = "TypeError"
    THEN Parsed(NoAction, "TypeError")
    ELSE Parsed(ToolCall(name, ParsedParams(arguments)), None)

\* the name the function entries embedded in the content carry
ContentToolName == "calculator"

\* lines 187-279: the decision for a reply
ParseReply(r) ==
    LET clean == WithoutThink(r.content)
    IN CASE ~r.choices -> Parsed(NoValidResponse, None)
         [] r.choices /\ InvocationGiven(r.tool_calls) ->
              IF r.tool_calls.kind = "call"
              THEN FromInvocation(r.tool_calls.name, r.tool_calls.arguments)
              ELSE Parsed(NoValidResponse, None)
         [] r.choices /\ ~InvocationGiven(r.tool_calls)
                      /\ InvocationGiven(r.function_call) ->
              FromInvocation(r.function_call.name, r.function_call.arguments)
         [] OTHER ->
              IF r.content = <<>> THEN Parsed(NoValidResponse, None)
              ELSE IF EmbeddedCall(clean)
              THEN FromInvocation(ContentToolName, clean[JsonStart(clean)].arguments)
              ELSE IF FreeText(r.content) # <<>>
              THEN Parsed(Response(FreeText(r.content)), None)
              ELSE Parsed(NoValidResponse, None)

NoLlm == [pc |-> "idle", attempt |-> 0, outcomes |-> <<>>, sleeps |-> <<>>,
          reply |-> NoReply, decision |-> NoAction, raised |-> None]

\* decide is called: the retry loop starts with attempt 0
PlannerDecide ==
    /\ llm.pc \in {"idle", "returned", "raised"}
    /\ llm' = [NoLlm EXCEPT !.pc = "calling"]
    /\ UNCHANGED <<registryVars, rules, rule_engine, taskVars, ret, proc, sink>>

\* 2 ** attempt
Backoff(attempt) == 2 ^ attempt

\* one pass of the retry loop that retries whatever the error is
ServiceCall_RetriesAll(o, r) ==
    /\ llm.pc = "calling"
    /\ llm.attempt < MaxRetries
    /\ o = "reply" \/ r = NoReply
    /\ llm' =
         IF o = "reply"
         THEN [llm EXCEPT !.outcomes = Append(@, o), !.reply = r, !.pc = "parsing"]
         ELSE IF llm.attempt < MaxRetries - 1
         THEN [llm EXCEPT !.outcomes = Append(@, o),
                          !.sleeps = Append(@, Backoff(llm.attempt)),
                          !.attempt = @ + 1]
         ELSE [llm EXCEPT !.outcomes = Append(@, o), !.decision = ApiFailed,
                          !.pc = "returned"]
    /\ UNCHANGED <<registryVars, rules, rule_engine, taskVars, ret, proc, sink>>

\* one pass of the retry loop: the call, and what follows it
ServiceCall(o, r) ==
    /\ llm.pc = "calling"
    /\ llm.attempt < MaxRetries
    /\ o = "reply" \/ r = NoReply
    /\ llm' =
         IF o = "reply"
         THEN [llm EXCEPT !.outcomes = Append(@, o), !.reply = r, !.pc = "parsing"]
         ELSE IF o = "rate_limit" /\ llm.attempt < MaxRetries - 1
         THEN [llm EXCEPT !.outcomes = Append(@, o),
                          !.sleeps = Append(@, Backoff(llm.attempt)),
                          !.attempt = @ + 1]
         ELSE [llm EXCEPT !.outcomes = Append(@, o), !.decision = ApiFailed,
                          !.pc = "returned"]
    /\ UNCHANGED <<registryVars, rules, rule_engine, taskVars, ret, proc, sink>>

\* the reply is parsed and decide returns, or raises
PlannerParse ==
    /\ llm.pc = "parsing"
    /\ LET p == ParseReply(llm.reply)
       IN llm' = [llm EXCEPT !.decision = p.decision, !.raised = p.raised,
                             !.pc = IF p.raised = None THEN "returned" ELSE "raised"]
    /\ UNCHANGED <<registryVars, rules, rule_engine, taskVars, ret, proc, sink>>

\* ------------------------------------------------ AuditLogger, its operations
agentVars == <<registryVars, rules, rule_engine, taskVars, ret, proc, llm>>

\* whether an open, a write or a read of the log file fails
IoOutcomes == IF sink.disk = "ok" THEN {"ok"} ELSE {"ok", "IOError"}

\* the log file stops being writable (its directory is removed, the disk is
\* full), and becomes writable again
DiskFails ==
    /\ pc = "Idle"
    /\ sink.disk = "ok"
    /\ sink' = [sink EXCEPT !.disk = "failing"]
    /\ UNCHANGED agentVars

DiskRecovers ==
    /\ pc = "Idle"
    /\ sink.disk = "failing"
    /\ sink' = [sink EXCEPT !.disk = "ok"]
    /\ UNCHANGED agentVars

\* AuditLogger(path) when the instance exists: __new__ returns it and the
\* path it was made with stays
ConstructLogger(p) ==
    /\ pc = "Idle"
    /\ sink' = [sink EXCEPT !.op = "construct", !.raised = None]
    /\ UNCHANGED agentVars

\* log_action, from the call to its return: IOError is caught in _write_log,
\* the TypeError of json.dumps is not
LogAction(a) ==
    /\ pc = "Idle"
    /\ Len(sink.emitted) < MaxLogCalls
    /\ \A w \in Writers : sink.pending[w] = NoLine
    /\ \E io \in IoOutcomes :
         LET entry == LogEntry(Len(sink.emitted) + 1, a)
         IN sink' = [sink EXCEPT
                !.emitted = Append(@, [writer |-> "t1", entry |-> entry]),
                !.file = IF io = "IOError" \/ DumpsRaises(entry) THEN @
                         ELSE Append(@, Dumps(entry, Len(@))),
                !.op = "log_action",
                !.raised = IF io = "ok" /\ DumpsRaises(entry) THEN "TypeError"
                           ELSE None]
    /\ UNCHANGED agentVars

\* log_action in a thread, up to the write: the file is opened in mode 'a'
\* and the line is built
OpenLog(w, a) ==
    /\ pc = "Idle"
    /\ Len(sink.emitted) < MaxLogCalls
    /\ sink.pending[w] = NoLine
    /\ LET entry == LogEntry(Len(sink.emitted) + 1, a)
       IN sink' = [sink EXCEPT
              !.emitted = Append(@, [writer |-> w, entry |-> entry]),
              !.pending[w] = IF DumpsRaises(entry) THEN NoLine
                             ELSE Dumps(entry, Len(sink.file)),
              !.op = "log_action",
              !.raised = IF DumpsRaises(entry) THEN "TypeError" ELSE None]
    /\ UNCHANGED agentVars

\* a file opened for update and positioned at its end when it was opened:
\* the line goes where the end was then
FlushLog_AtOpenOffset(w) ==
    /\ pc = "Idle"
    /\ sink.pending[w] # NoLine
    /\ sink' = [sink EXCEPT
           !.file = IF sink.pending[w].at < Len(@)
                    THEN [@ EXCEPT ![sink.pending[w].at + 1] = sink.pending[w]]
                    ELSE Append(@, sink.pending[w]),
           !.pending[w] = NoLine]
    /\ UNCHANGED agentVars

\* the thread's one write of its line, when the file is closed: mode 'a' puts
\* it at the end of the file as the file is then
FlushLog(w) ==
    /\ pc = "Idle"
    /\ sink.pending[w] # NoLine
    /\ sink' = [sink EXCEPT !.file = Append(@, sink.pending[w]),
                            !.pending[w] = NoLine]
    /\ UNCHANGED agentVars

\* get_logs: the lines that parse, in file order; [] when the read fails
GetLogs ==
    /\ pc = "Idle"
    /\ \E io \in IoOutcomes :
         sink' = [sink EXCEPT
                !.logs = IF io = "IOError" THEN <<>> ELSE ReadLines(sink.file),
                !.op = "get_logs",
                !.raised = None]
    /\ UNCHANGED agentVars

\* ------------------------------------------------------------ specification
Init ==
    /\ tools = EmptyTools
    /\ instance = None
    /\ initialized = FALSE
    /\ rules = <<>>
    /\ rule_engine \in {"builtin", "custom"}
    /\ pc = "Idle"
    /\ task = <<>>
    /\ rule_action = NoAction
    /\ llm_action = NoAction
    /\ action = NoAction
    /\ calls = <<>>
    /\ extracted = <<>>
    /\ effects = <<>>
    /\ result = NoResult
    /\ audit = <<>>
    /\ tasksRun = 0
    /\ ret = NoRet
    /\ proc = NoProc
    /\ llm = NoLlm
    /\ sink = NoSink

\* the agent: capabilities are plain functions, as register_class_tools
\* registers them
Next ==
    \/ ConstructRegistry
    \/ \E n \in ToolNames : RegisterTool(n, "f1")
    \/ \E r \in RuleSet : AddRule(r.pattern, r.tool_name, r.params_extractor)
    \/ \E t \in Tasks : Run(t)
    \/ RuleEvaluate
    \/ \E d \in CustomRuleDecisions : CustomRuleEvaluate(d)
    \/ HybridAcceptToolCall
    \/ HybridAcceptResponse
    \/ \E d \in PlannerDecisions : HybridEscalate(d)
    \/ \E a \in ReplyArguments : HybridEscalateRaises(a)
    \/ ExecUnregistered
    \/ ExecCommandMissing
    \/ \E o \in SandboxOutcomes : ExecCommand(o)
    \/ \E o \in ToolOutcomes : ExecDirect(o)
    \/ ExecResponse
    \/ ExecUnknownType
    \/ Return

Spec == Init /\ [][Next]_vars

\* the steps of run after it is entered: sequential code, each step of which
\* ends when the capability, the command or the service call it waits for returns
RunStep ==
    \/ RuleEvaluate
    \/ \E d \in CustomRuleDecisions : CustomRuleEvaluate(d)
    \/ HybridAcceptToolCall
    \/ HybridAcceptResponse
    \/ \E d \in PlannerDecisions : HybridEscalate(d)
    \/ \E a \in ReplyArguments : HybridEscalateRaises(a)
    \/ ExecUnregistered
    \/ ExecCommandMissing
    \/ \E o \in SandboxOutcomes : ExecCommand(o)
    \/ \E o \in ToolOutcomes : ExecDirect(o)
    \/ ExecResponse
    \/ ExecUnknownType
    \/ Return

\* the agent when every call that run waits for returns
SpecFair == Init /\ [][Next]_vars /\ WF_vars(RunStep)

\* the registry on its own, with every kind of value a caller may hand it
NextRegistry ==
    \/ ConstructRegistry
    \/ \E n \in ToolNames, v \in ToolValues : RegisterTool(n, v)
    \/ \E n \in ToolNames : GetTool(n)
    \/ \E n \in ToolNames : GetToolSignature(n)

SpecRegistry == Init /\ [][NextRegistry]_vars

\* the sandbox on its own, with every behaviour of the process
NextSandbox ==
    \E command \in Tasks, timeout \in Timeouts, b \in Behaviours :
        SandboxExecute(command, timeout, b)

SpecSandbox == Init /\ [][NextSandbox]_vars

\* the Model Planner on its own, with every behaviour of the service
NextPlanner ==
    \/ PlannerDecide
    \/ \E o \in ServiceOutcomes, r \in Replies : ServiceCall(o, r)
    \/ PlannerParse

SpecPlanner == Init /\ [][NextPlanner]_vars

\* the logger on its own, one caller
NextAudit ==
    \/ \E p \in LogPaths : ConstructLogger(p)
    \/ \E a \in LogArgs : LogAction(a)
    \/ GetLogs
    \/ DiskFails
    \/ DiskRecovers

SpecAudit == Init /\ [][NextAudit]_vars

\* the logger shared by threads that log at the same time
NextAuditThreads ==
    \/ \E p \in LogPaths : ConstructLogger(p)
    \/ \E w \in Writers, a \in LogArgs : OpenLog(w, a)
    \/ \E w \in Writers : FlushLog(w)
    \/ GetLogs

SpecAuditThreads == Init /\ [][NextAuditThreads]_vars

\* a session of the agent: one task after another
SessionRules ==
    [pattern : {<<"x">>}, tool_name : ToolNames, params_extractor : {"command"}]

SessionTasks == {<<"x">>, <<"y">>}

NextSession ==
    \/ ConstructRegistry
    \/ \E n \in ToolNames : RegisterTool(n, "f1")
    \/ \E r \in SessionRules : AddRule(r.pattern, r.tool_name, r.params_extractor)
    \/ \E t \in SessionTasks : RunTask(t, MaxTasks + 1)
    \/ RunStep

SpecSession == Init /\ [][NextSession]_vars

\* the agent with a log file that may stop being writable
NextLossy ==
    \/ ConstructRegistry
    \/ \E n \in ToolNames : RegisterTool(n, "f1")
    \/ \E r \in SessionRules : AddRule(r.pattern, r.tool_name, r.params_extractor)
    \/ \E t \in SessionTasks : Run(t)
    \/ RunStep
    \/ DiskFails
    \/ DiskRecovers

SpecLossy == Init /\ [][NextLossy]_vars

TypeOK ==
    /\ DOMAIN tools \subseteq ToolNames
    /\ \A n \in DOMAIN tools : Callable(tools[n])
    /\ instance \in {None, TheRegistry}
    /\ initialized \in BOOLEAN
    /\ Len(rules) <= MaxRules
    /\ pc \in {"Idle", "Received", "RuleEvaluated", "Decided", "Terminal", "Raised"}
    /\ tasksRun \in 0 .. MaxTasks + 1

\* =================================================================== claims
Matches(i) == SubstringOf(rules[i].pattern, task)
Applicable(i) == Matches(i) /\ rules[i].tool_name \in Available
Satisfying(i) == Applicable(i) /\ ~ExtractorRaises(rules[i], task)
SatisfyingRules == {i \in 1..Len(rules) : Satisfying(i)}
FirstSatisfying == CHOOSE i \in SatisfyingRules : \A j \in SatisfyingRules : i <= j
RuleToolCall(i) == ToolCall(rules[i].tool_name, ExtractorResult(rules[i], task))

RuleReturned == pc \in {"RuleEvaluated", "Decided", "Terminal", "Raised"}
DecideReturned == pc \in {"Decided", "Terminal"}
Escalated == \E k \in DOMAIN calls : calls[k] = "llm_engine"
IsSentinel(a) == a.type = "response" /\ SubstringOf(SentinelMarker, a.response)

\* C1 as stated: whenever some rule matches the task and names an available
\* capability, the dispatcher returns a ToolCall for such a rule's capability
\* and the planner is not invoked, whatever the rule's extractor does.
C1_AnyApplicableRuleWins ==
    (rule_engine = "builtin" /\ DecideReturned
        /\ \E i \in 1..Len(rules) : Applicable(i))
    => /\ action.type = "tool_call"
       /\ \E i \in 1..Len(rules) : Applicable(i) /\ action.tool_name = rules[i].tool_name
       /\ ~Escalated

\* C1 amended: whenever some rule matches the task, names an available
\* capability and its extractor does not raise, the dispatcher returns the
\* ToolCall of the first such rule and the planner is not invoked.
C1_SatisfyingRuleWins ==
    (rule_engine = "builtin" /\ DecideReturned /\ SatisfyingRules # {})
    => /\ action = RuleToolCall(FirstSatisfying)
       /\ action.tool_name \in Available
       /\ ~Escalated

C1_Witness ==
    /\ rule_engine = "builtin"
    /\ pc = "Decided"
    /\ \E i, j \in 1..Len(rules) :
          i < j /\ Applicable(i) /\ ExtractorRaises(rules[i], task) /\ Satisfying(j)
    /\ action.type = "tool_call"

\* C2: when no rule matches the task, or every matching rule names an
\* unavailable capability, the dispatcher consults the rule engine once and
\* then the planner once, in that order, and neither again for that task.
C2_EscalatesExactlyOnce ==
    (rule_engine = "builtin" /\ \A i \in 1..Len(rules) : ~Applicable(i))
    => /\ pc = "RuleEvaluated" => calls = <<"rule_engine">>
       /\ DecideReturned => calls = <<"rule_engine", "llm_engine">>

C2_Witness ==
    /\ rule_engine = "builtin"
    /\ pc = "Terminal"
    /\ \E i \in 1..Len(rules) : Matches(i)
    /\ \A i \in 1..Len(rules) : ~Applicable(i)
    /\ calls = <<"rule_engine", "llm_engine">>

\* C3: the rule engine scans the rules in insertion order and returns the
\* ToolCall of the lowest-index satisfying rule; no extractor of a later rule
\* is called.
C3_Scan ==
    (rule_engine = "builtin" /\ RuleReturned)
    => /\ \A k \in DOMAIN extracted : k > 1 => extracted[k - 1] < extracted[k]
       /\ SatisfyingRules # {}
            => /\ rule_action = RuleToolCall(FirstSatisfying)
               /\ \A k \in DOMAIN extracted : extracted[k] <= FirstSatisfying

C3_AddRuleAppends ==
    rules' # rules => (Len(rules') = Len(rules) + 1 /\ SubSeq(rules', 1, Len(rules)) = rules)

C3_FirstSatisfyingRuleWins == [] C3_Scan /\ [][C3_AddRuleAppends]_vars

C3_Witness ==
    /\ rule_engine = "builtin"
    /\ pc = "RuleEvaluated"
    /\ \E i, j \in SatisfyingRules : i < j /\ rules[i].tool_name # rules[j].tool_name
    /\ rule_action.tool_name = rules[FirstSatisfying].tool_name
    /\ extracted = <<FirstSatisfying>>

\* C4: a raising extractor is not propagated; its rule counts as a non-match
\* and the scan goes on: a later satisfying rule still gives its ToolCall, and
\* without one the no-rule-matched sentinel Response is returned.
C4_ExtractorFailureSkipsRule ==
    (rule_engine = "builtin" /\ RuleReturned
        /\ \E i \in 1..Len(rules) :
              /\ Applicable(i) /\ ExtractorRaises(rules[i], task)
              /\ \A j \in SatisfyingRules : i < j)
    => /\ rule_action.type \in {"tool_call", "response"}
       /\ IF SatisfyingRules # {}
          THEN rule_action = RuleToolCall(FirstSatisfying)
          ELSE rule_action = Response(SentinelText)

C4_Witness ==
    /\ rule_engine = "builtin"
    /\ pc = "RuleEvaluated"
    /\ SatisfyingRules # {}
    /\ \E i, j \in 1..Len(rules) :
          /\ i < j /\ Applicable(i) /\ ExtractorRaises(rules[i], task)
          /\ j = FirstSatisfying
          /\ extracted = <<i, j>>
    /\ rule_action.type = "tool_call"

\* C5: every ToolCall the rule engine returns names an available capability,
\* and a matching rule for an unavailable capability does not stop the scan.
C5_OnlyAvailableCapabilities ==
    (rule_engine = "builtin" /\ RuleReturned)
    => /\ rule_action.type = "tool_call" => rule_action.tool_name \in Available
       /\ ((\E i \in 1..Len(rules) : Matches(i) /\ ~Applicable(i)) /\ SatisfyingRules # {})
            => rule_action = RuleToolCall(FirstSatisfying)

C5_Witness ==
    /\ rule_engine = "builtin"
    /\ pc = "RuleEvaluated"
    /\ \E i, j \in 1..Len(rules) :
          i < j /\ Matches(i) /\ ~Applicable(i) /\ Satisfying(j)
    /\ rule_action.type = "tool_call"
    /\ rule_action.tool_name \in Available

\* C6: with no satisfying rule the rule engine returns the sentinel Response;
\* the dispatcher goes to the planner exactly when the rule engine's decision
\* is a sentinel Response or a ToolCall for an unavailable capability, and
\* returns any other decision of the rule engine as it is.
C6_FallThroughOnSentinel ==
    /\ (rule_engine = "builtin" /\ RuleReturned /\ SatisfyingRules = {})
         => rule_action = Response(SentinelText)
    /\ DecideReturned
         => /\ Escalated <=> \/ IsSentinel(rule_action)
                             \/ /\ rule_action.type = "tool_call"
                                /\ rule_action.tool_name \notin Available
            /\ ~Escalated => (action = rule_action /\ calls = <<"rule_engine">>)

C6_Witness ==
    /\ pc = "Decided"
    /\ rule_action.type = "response"
    /\ ~IsSentinel(rule_action)
    /\ action = rule_action
    /\ ~Escalated

\* C7: on escalation the dispatcher returns the planner's decision unchanged;
\* a planner ToolCall for an unregistered (or missing) name passes the
\* dispatcher and is rejected by run, which calls nothing.
C7_PlannerDecisionUnmodified ==
    /\ (DecideReturned /\ Escalated) => action = llm_action
    /\ pc = "Decided" => result = NoResult
    /\ (pc = "Terminal" /\ Escalated /\ llm_action.type = "tool_call"
           /\ llm_action.tool_name \notin Available)
         => /\ result = Outcome("error_unregistered", llm_action.tool_name,
                                UnregisteredMsg(llm_action.tool_name))
            /\ effects = <<>>

C7_Witness ==
    /\ pc = "Terminal"
    /\ Escalated
    /\ llm_action.type = "tool_call"
    /\ llm_action.tool_name \notin Available
    /\ llm_action.tool_name # None
    /\ result.outcome = "error_unregistered"

\* C8: registering a name again overwrites its binding: after the second
\* register_tool the name is bound to the second callable, once, get_tool
\* returns it, and every other name keeps its binding.
C8_Bound ==
    (ret.op = "register_tool" /\ ret.raised = None)
    => (ret.name \in DOMAIN tools /\ tools[ret.name] = ret.value)

C8_Frame ==
    (ret'.op = "register_tool" /\ ret'.raised = None)
    => /\ DOMAIN tools' = DOMAIN tools \cup {ret'.name}
       /\ \A n \in DOMAIN tools : n # ret'.name => tools'[n] = tools[n]

C8_GetAfterRegister ==
    (ret.op = "register_tool" /\ ret.raised = None
        /\ ret'.op = "get_tool" /\ ret'.name = ret.name)
    => (ret'.result = ret.value /\ ret'.raised = None)

C8_ReRegisterOverwrites ==
    [] C8_Bound /\ [][C8_Frame /\ C8_GetAfterRegister]_vars

C8_Witness ==
    /\ ret.op = "register_tool"
    /\ ret.raised = None
    /\ ret.prev \notin {None, ret.value}
    /\ tools[ret.name] = ret.value
    /\ \E n \in DOMAIN tools : n # ret.name

\* C9: register_tool with a non-callable value raises and leaves the registry
\* as it was: no name is added and an existing binding is kept.
C9_Rejected ==
    (ret'.op = "register_tool" /\ ~Callable(ret'.value))
    => (ret'.raised = "TypeError" /\ tools' = tools)

C9_NonCallableRejected == [][C9_Rejected]_vars

C9_Witness ==
    /\ ret.op = "register_tool"
    /\ ret.raised = "TypeError"
    /\ ret.prev # None
    /\ tools[ret.name] = ret.prev

\* C10 as stated: get_tool of an unregistered name returns None and raises
\* nothing, get_tool_signature of an unregistered name raises the
\* not-registered error, and for a registered name both succeed.
C10_LookupContract ==
    /\ ret.op = "get_tool"
         => /\ ret.raised = None
            /\ ret.result = Lookup(ret.name)
    /\ ret.op = "get_tool_signature"
         => IF ret.name \in DOMAIN tools
            THEN ret.raised = None
            ELSE ret.raised = "ValueError: not registered"

\* C11: the registry is one shared instance: every ToolRegistry() after
\* the first returns the instance made first, and constructing it again
\* neither clears nor resets the capabilities registered so far.
C11_SameInstance ==
    (instance # None)
    => /\ instance' = instance
       /\ ret'.op = "ToolRegistry" => (ret'.result = instance /\ tools' = tools)

C11_SingleSharedInstance == [][C11_SameInstance]_vars

C11_Witness ==
    /\ ret.op = "ToolRegistry"
    /\ ret.prev = TheRegistry
    /\ ret.result = TheRegistry
    /\ DOMAIN tools = ToolNames

\* ------------------------------------------------- the audit of one task
\* the entries of a log from its last user_input entry on: those of the
\* task that is running or has just ended
TaskOf(log) ==
    LET starts == {i \in DOMAIN log : log[i].action_type = "user_input"}
        first == CHOOSE i \in starts : \A j \in starts : j <= i
    IN IF starts = {} THEN <<>> ELSE SubSeq(log, first, Len(log))

TaskAudit == TaskOf(audit)

TypesOf(log) == [i \in DOMAIN log |-> log[i].action_type]

Last(log) == log[Len(log)]

IsErrorEntry(e) == e.status = "error" /\ e.error # NoneText /\ e.error # <<>>

Unregistered ==
    pc = "Decided" /\ action.type = "tool_call" /\ action.tool_name \notin Available

DirectCall ==
    /\ pc = "Decided"
    /\ action.type = "tool_call"
    /\ action.tool_name \in Available
    /\ action.tool_name # "execute_command"

\* C12: for a ToolCall that names an unregistered capability run calls no
\* capability and no process, appends an entry of status error, returns a
\* text that names the capability, and does not raise.
C12_UnregisteredStep ==
    Unregistered
    => /\ pc' = "Terminal"
       /\ effects' = <<>>
       /\ Len(audit') > Len(audit)
       /\ IsErrorEntry(Last(audit'))
       /\ Last(audit').details.tool_name = action.tool_name
       /\ result'.outcome = "error_unregistered"
       /\ result'.text = UnregisteredMsg(action.tool_name)
       /\ result'.text = Last(audit').error

C12_UnregisteredIsReported == [][C12_UnregisteredStep]_vars

C12_Witness ==
    /\ pc = "Terminal"
    /\ action.type = "tool_call"
    /\ action.tool_name \notin Available
    /\ result.outcome = "error_unregistered"
    /\ Last(audit).action_type = "error"
    /\ effects = <<>>

\* C13: when a capability that is called directly raises, run catches the
\* exception: it returns an error text made of the capability name and the
\* text of the cause, appends a tool_result entry of status error that
\* carries the name and the parameters, and does not raise.
C13_DirectStep ==
    DirectCall
    => /\ pc' = "Terminal"
       /\ \/ result'.outcome = "tool_value"
          \/ /\ result'.outcome = "error_tool_failed"
             /\ result'.tool_name = action.tool_name
             /\ \E cause \in Causes :
                    result'.text = ToolFailedMsg(action.tool_name, cause)
             /\ Last(audit').action_type = "tool_result"
             /\ IsErrorEntry(Last(audit'))
             /\ Last(audit').error = result'.text
             /\ Last(audit').details.tool_name = action.tool_name
             /\ Last(audit').details.tool_params = ParamsOrEmpty(action)

C13_CapabilityExceptionCaught == [][C13_DirectStep]_vars

C13_Witness ==
    /\ pc = "Terminal"
    /\ action.type = "tool_call"
    /\ action.tool_name = "calculator"
    /\ Len(effects) = 1
    /\ effects[1].kind = "tool"
    /\ result.outcome = "error_tool_failed"
    /\ result.text = ToolFailedMsg("calculator", <<"boom">>)

\* C14: a registered capability other than execute_command is called once
\* per task, with the parameters of the decision, after the tool_call entry
\* and before the tool_result entry; when it returns, run returns its value
\* unchanged and the tool_result entry has status success.
C14_DirectStep ==
    DirectCall
    => /\ Len(effects') = 1
       /\ effects'[1].kind = "tool"
       /\ effects'[1].tool_name = action.tool_name
       /\ effects'[1].tool_params = ParamsOrEmpty(action)
       /\ Len(audit') = Len(audit) + 3
       /\ effects'[1].at = Len(audit') - 1
       /\ audit'[effects'[1].at].action_type = "tool_call"
       /\ audit'[effects'[1].at].details.tool_params = ParamsOrEmpty(action)
       /\ Last(audit').action_type = "tool_result"
       /\ effects'[1].returned # NoValue
          => /\ result' = ValueOutcome(action.tool_name, effects'[1].returned)
             /\ Last(audit').status = "success"
             /\ Last(audit').details.result = Str(effects'[1].returned)

C14_CalledOnceBetweenEntries ==
    /\ [](Len(effects) <= 1)
    /\ [][C14_DirectStep]_vars

C14_Witness ==
    /\ pc = "Terminal"
    /\ action = ToolCall("calculator", CommandParams(<<"x">>))
    /\ Len(effects) = 1
    /\ effects[1].tool_params = CommandParams(<<"x">>)
    /\ effects[1].returned = [type |-> "int", repr |-> "8"]
    /\ result.value = [type |-> "int", repr |-> "8"]
    /\ Last(audit).status = "success"

\* C15 as stated: run never lets an exception out, whatever the dispatcher,
\* the planner, the capability or the sandbox do.
C15_RunNeverRaises == pc # "Raised"

\* C16 as stated: every ToolCall branch of run appends one tool_call entry
\* and then one tool_result entry for the task.
C16_PairedEntries ==
    (pc = "Terminal" /\ action.type = "tool_call")
    => LET types == TypesOf(TaskAudit)
       IN /\ Cardinality({i \in DOMAIN types : types[i] = "tool_call"}) = 1
          /\ Cardinality({i \in DOMAIN types : types[i] = "tool_result"}) = 1
          /\ \E i \in DOMAIN types :
                /\ i < Len(types)
                /\ types[i] = "tool_call"
                /\ types[i + 1] = "tool_result"

\* C17 as stated: the entries of one task read user_input, decision and
\* then either nothing or tool_call, tool_result; a tool_result never comes
\* without a tool_call before it.
C17_TaskEntryOrder ==
    pc = "Terminal"
    => TypesOf(TaskAudit) \in {<<"user_input", "decision">>,
                               <<"user_input", "decision", "tool_call", "tool_result">>}

FailurePath ==
    \/ result.outcome \in {"error_unregistered", "error_tool_failed",
                           "error_command_failed", "error_unknown_type"}
    \/ Escalated /\ action \in PlannerFailures

\* C18 as stated: when a task fails, whatever the failure, the task has an
\* audit entry of status error with a cause that is not empty.
C18_FailureIsAudited ==
    (pc = "Terminal" /\ FailurePath)
    => \E i \in DOMAIN TaskAudit : IsErrorEntry(TaskAudit[i])

Completions(log) ==
    {i \in DOMAIN log : log[i].action_type \in {"tool_result", "error"}}

\* C19: every run of a ToolCall decision ends with one Outcome and with one
\* completion entry (tool_result or error): there is exactly one, and it is
\* the last entry of the task.
C19_OneCompletionEntry ==
    (pc = "Terminal" /\ action.type = "tool_call")
    => /\ result # NoResult
       /\ Completions(TaskAudit) = {Len(TaskAudit)}

C19_Witness ==
    /\ pc = "Terminal"
    /\ action.type = "tool_call"
    /\ action.tool_name = "execute_command"
    /\ result.outcome = "command_ok"
    /\ Len(effects) = 1
    /\ Completions(TaskAudit) = {4}

\* C20: for a Response decision run returns the text of the decision as it
\* is, calls no capability and no process, leaves the registry as it was,
\* and the entries of the task are user_input and decision, nothing more.
C20_ResponseStep ==
    (pc = "Decided" /\ action.type = "response")
    => /\ pc' = "Terminal"
       /\ result' = Outcome("response", None, action.response)
       /\ effects' = <<>>
       /\ registryVars' = registryVars
       /\ TypesOf(TaskOf(audit')) = <<"user_input", "decision">>
       /\ Len(audit') = Len(audit) + 1

C20_ResponseIsVerbatim == [][C20_ResponseStep]_vars

C20_Witness ==
    /\ pc = "Terminal"
    /\ action = Response(<<"answer">>)
    /\ result.text = <<"answer">>
    /\ effects = <<>>
    /\ TypesOf(TaskAudit) = <<"user_input", "decision">>

CommandCall ==
    /\ pc = "Decided"
    /\ action.type = "tool_call"
    /\ action.tool_name = "execute_command"
    /\ action.tool_name \in Available

\* C21: for a ToolCall of execute_command without a command, or with an
\* empty one, the task ends with the missing-parameter error and the
\* sandbox is not called; otherwise the sandbox is called once, with that
\* command and with the timeout of the decision, or 60 when it has none.
C21_CommandStep ==
    CommandCall
    => LET params == ParamsOrEmpty(action)
           command == ParamGet(params, "command")
           absent == command = NoneText \/ command = <<>>
       IN IF absent
          THEN /\ effects' = <<>>
               /\ pc' = "Terminal"
               /\ result' = Outcome("error_tool_failed", "execute_command",
                                    ToolFailedMsg("execute_command", CommandRequired))
          ELSE /\ Len(effects') = 1
               /\ effects'[1].kind = "sandbox"
               /\ effects'[1].command = command
               /\ effects'[1].tool_params =
                     {<<"timeout", IF \E kv \in params : kv[1] = "timeout"
                                   THEN ParamGet(params, "timeout")
                                   ELSE <<"60">> >>}

C21_CommandDelegated ==
    /\ [](Len(effects) <= 1)
    /\ [][C21_CommandStep]_vars

C21_Witness ==
    /\ pc = "Terminal"
    /\ action.tool_name = "execute_command"
    /\ ParamGet(action.tool_params, "timeout") = <<"2">>
    /\ Len(effects) = 1
    /\ effects[1].command = <<"x">>
    /\ effects[1].tool_params = {<<"timeout", <<"2">>>>}

C21_WitnessMissing ==
    /\ pc = "Terminal"
    /\ action.type = "tool_call"
    /\ action.tool_name = "execute_command"
    /\ action.tool_name \in Available
    /\ ParamGet(ParamsOrEmpty(action), "command") \in {NoneText, <<>>}

\* ------------------------------------------------------------- the sandbox
Executed == proc.kind # None

Returned == Executed /\ proc.raised = None

OutcomeKeys == {"stdout", "stderr", "returncode", "success", "error"}

\* C22 as stated: every execution is classified: execute_command gives an
\* outcome whose success is true exactly when the exit code is 0, and every
\* outcome that is not a success has an error message.
C22_EveryExecutionClassified ==
    Executed
    => /\ Returned
       /\ proc.returned.success <=> (proc.kind = "exited" /\ proc.code = 0)
       /\ proc.returned.success <=> proc.returned.returncode = 0
       /\ ~proc.returned.success
          => ("error" \in DOMAIN proc.returned /\ proc.returned.error # "")

\* C23 as stated: a command that runs longer than its timeout gets the
\* timeout outcome (no success, returncode -1, an error message), whatever
\* it had written before the deadline.
C23_TimeoutIsClassified ==
    (Executed /\ proc.kind = "timeout")
    => /\ Returned
       /\ proc.returned.success = FALSE
       /\ proc.returned.returncode = TimeoutCode
       /\ proc.returned.error # ""

\* C24 as stated: -1, -2 and -3 differ from each other and from every
\* returncode of a process that ended, one killed by a signal included, so
\* the returncode tells the classification.
C24_SentinelsAreDistinct ==
    /\ Cardinality({TimeoutCode, NotFoundCode, UnknownErrorCode}) = 3
    /\ (Returned /\ proc.kind = "exited")
       => proc.returned.returncode \notin {TimeoutCode, NotFoundCode, UnknownErrorCode}

\* C25 as stated: execute_command never raises, and what it returns has the
\* same keys on every branch: stdout, stderr, returncode, success, error.
C25_NeverRaisesSameShape ==
    Executed
    => /\ proc.raised = None
       /\ DOMAIN proc.returned = OutcomeKeys

\* ------------------------------------------------------- the Model Planner
Decided == llm.pc \in {"returned", "raised"}

ParsedReply == Decided /\ llm.outcomes # <<>> /\ Last(llm.outcomes) = "reply"

ServiceFailed == Decided /\ llm.outcomes # <<>> /\ Last(llm.outcomes) # "reply"

\* the outcomes before the last one
Earlier(outcomes) == SubSeq(outcomes, 1, Len(outcomes) - 1)

\* C26: decide calls the service at most 3 times for a task; it sleeps
\* 1 second and then 2 seconds, each time after a rate-limit error and
\* before the next call; it calls no more after the first reply; and when
\* the last call fails it returns the Response that reports the failure.
C26_LoopState ==
    /\ Len(llm.outcomes) <= MaxRetries
    /\ llm.attempt < MaxRetries
    /\ llm.sleeps = [k \in 1 .. Len(llm.sleeps) |-> 2 ^ (k - 1)]
    /\ llm.pc = "calling"
       => /\ Len(llm.sleeps) = Len(llm.outcomes)
          /\ \A k \in DOMAIN llm.outcomes : llm.outcomes[k] = "rate_limit"
    /\ llm.pc \in {"parsing", "returned", "raised"}
       => /\ Len(llm.sleeps) = Len(llm.outcomes) - 1
          /\ \A k \in DOMAIN Earlier(llm.outcomes) : llm.outcomes[k] = "rate_limit"
    /\ ServiceFailed => (llm.pc = "returned" /\ llm.decision = ApiFailed)

C26_LoopStep ==
    /\ llm.pc = "calling" => llm'.pc \in {"calling", "parsing", "returned"}
    /\ llm.pc = "parsing" => llm'.outcomes = llm.outcomes

C26_RetryLoopBounded == []C26_LoopState /\ [][C26_LoopStep]_vars

C26_Witness ==
    /\ llm.pc = "returned"
    /\ llm.outcomes = <<"rate_limit", "rate_limit", "rate_limit">>
    /\ llm.sleeps = <<1, 2>>
    /\ llm.decision = ApiFailed

\* C27 as stated: an error of the service that is not a rate limit is
\* retried too: the failure is reported only after the last attempt.
C27_TransportFailureRetried ==
    ServiceFailed => Len(llm.outcomes) = MaxRetries

\* the reply carries a tool invocation in the tool_calls field, in the
\* function_call field, in the content
CarriesToolCalls(r) == r.choices /\ r.tool_calls.kind = "call"

CarriesFunctionCall(r) == r.choices /\ r.function_call.kind = "call"

CarriesInContent(r) ==
    /\ r.choices
    /\ \E i \in DOMAIN r.content :
          /\ r.content[i].kind = "json"
          /\ r.content[i].data \in {"tool_calls", "delta_tool_calls"}

\* the name of the invocation that has priority
PriorityName(r) ==
    IF CarriesToolCalls(r) THEN r.tool_calls.name
    ELSE IF CarriesFunctionCall(r) THEN r.function_call.name
    ELSE ContentToolName

\* C28 as stated: tool_calls wins over function_call, which wins over a
\* call embedded in the content; whenever one of the three carries a tool
\* invocation the decision is a ToolCall with the name of that invocation.
C28_ParsePriority ==
    (ParsedReply /\ (CarriesToolCalls(llm.reply) \/ CarriesFunctionCall(llm.reply)
                       \/ CarriesInContent(llm.reply)))
    => /\ llm.pc = "returned"
       /\ llm.decision.type = "tool_call"
       /\ llm.decision.tool_name = PriorityName(llm.reply)

\* C29 as stated: when no shape of the reply gives a tool call, the
\* decision is a Response with the free text of the content if there is
\* any, and the no-usable-response Response only if there is none.
C29_FreeTextResponse ==
    (ParsedReply /\ ~CarriesToolCalls(llm.reply) /\ ~CarriesFunctionCall(llm.reply)
                 /\ ~CarriesInContent(llm.reply))
    => /\ llm.pc = "returned"
       /\ llm.decision = IF FreeText(llm.reply.content) # <<>>
                         THEN Response(FreeText(llm.reply.content))
                         ELSE NoValidResponse

\* C30 as stated: when the arguments of the invocation decide takes are
\* not JSON text, are absent, or are null, the decision is still a
\* ToolCall for that capability, with no parameters, and decide does not raise.
C30_BadArgumentsGiveEmptyParams ==
    (ParsedReply /\ CarriesToolCalls(llm.reply)
                 /\ llm.reply.tool_calls.arguments \in {"not_json", "absent", "null"})
    => /\ llm.pc = "returned"
       /\ llm.decision = ToolCall(llm.reply.tool_calls.name, EmptyParams)

\* ---------------------------------------------------------------- C32
\* the payload of a Decision, by kind
ToolCallShape(a) ==
    /\ a.type = "tool_call"
    /\ a.tool_name # None
    /\ a.tool_params # NoneParams
    /\ a.response = NoneText

ResponseShape(a) ==
    /\ a.type = "response"
    /\ a.response # NoneText
    /\ a.tool_name = None
    /\ a.tool_params = NoneParams

\* C32: every Decision that HybridDecisionEngine.decide returns has exactly
\* one payload shape: a tool_call has a name and a parameter map and no text,
\* a response has a text and neither name nor parameters
C32_OnePayloadShape ==
    DecideReturned => ToolCallShape(action) \/ ResponseShape(action)

\* ---------------------------------------------------------------- C36
\* the executor's registry lookup cannot fail for a ToolCall that the
\* dispatcher accepted from the rule engine
C36_RuleToolCallKnown ==
    /\ (DecideReturned /\ ~Escalated /\ action.type = "tool_call")
          => action = rule_action /\ action.tool_name \in Available
    /\ (pc = "Terminal" /\ result.outcome = "error_unregistered")
          => Escalated /\ action = llm_action

\* no operation removes a capability, and none touches the registry during a run
C36_RegistryKept ==
    /\ \A n \in DOMAIN tools : n \in DOMAIN tools'
    /\ pc # "Idle" => tools' = tools

\* C36: a ToolCall that came from the rule engine is never rejected by the
\* executor as unregistered: the dispatcher and the executor read the same
\* registry mapping, nothing removes a capability, and the unregistered error
\* is reached only through a decision of the Model Planner
C36_RuleToolCallNeverUnregistered ==
    []C36_RuleToolCallKnown /\ [][C36_RegistryKept]_vars

C36_Witness ==
    /\ pc = "Terminal"
    /\ ~Escalated
    /\ rule_action.type = "tool_call"
    /\ action = rule_action
    /\ Len(effects) = 1
    /\ result.outcome # "error_unregistered"

\* ---------------------------------------------------------------- C37
\* C37: for execute_command the executor never calls the registered callable:
\* the command runs only through the sandbox, at most once per task; the
\* sandbox is never started for another capability name; and an
\* execute_command that is not registered ends in the unregistered error
C37_CommandOnlyThroughSandbox ==
    /\ Len(effects) <= 1
    /\ \A k \in DOMAIN effects :
          /\ effects[k].kind \in {"sandbox", "tool"}
          /\ effects[k].kind = "sandbox" <=> effects[k].tool_name = "execute_command"
    /\ (/\ pc = "Terminal"
        /\ action.type = "tool_call"
        /\ action.tool_name = "execute_command"
        /\ "execute_command" \notin Available)
          => effects = <<>> /\ result.outcome = "error_unregistered"

C37_Witness ==
    /\ pc = "Terminal"
    /\ action.tool_name = "execute_command"
    /\ "execute_command" \in Available
    /\ Len(effects) = 1
    /\ effects[1].kind = "sandbox"
    /\ effects[1].command = ParamGet(ParamsOrEmpty(action), "command")

\* ---------------------------------------------------------------- C38
ActionTypes == {"user_input", "decision", "tool_call", "tool_result", "error"}

Statuses == {"info", "success", "error"}

\* C38: every audit entry that run appends has one of the five action types
\* and one of the statuses info, success, error, and carries an error text
\* exactly when its status is error
C38_EntriesWellFormed ==
    \A k \in DOMAIN audit :
        /\ audit[k].action_type \in ActionTypes
        /\ audit[k].status \in Statuses
        /\ audit[k].error # NoneText <=> audit[k].status = "error"

C38_Witness ==
    /\ pc = "Terminal"
    /\ Len(audit) = 4
    /\ audit[4].action_type = "tool_result"
    /\ audit[4].status = "error"
    /\ audit[4].error # NoneText
    /\ audit[3].status = "info"

\* ---------------------------------------------------------------- C40
\* C40: the built-in rule engine returns a ToolCall for an available
\* capability or the sentinel Response and nothing else, so the dispatcher
\* never accepts a Response of its own rule engine and escalates exactly when
\* the rule engine returned no ToolCall
C40_BuiltinNeverAnswers ==
    (rule_engine = "builtin" /\ RuleReturned) =>
        /\ \/ rule_action.type = "tool_call" /\ rule_action.tool_name \in Available
           \/ rule_action = Response(SentinelText)
        /\ HybridBranch(rule_action, Available) # "accept_response"
        /\ pc # "RuleEvaluated" => (Escalated <=> rule_action.type # "tool_call")

C40_Witness ==
    /\ rule_engine = "builtin"
    /\ pc = "Decided"
    /\ Escalated
    /\ rule_action = Response(SentinelText)
    /\ extracted # <<>>

\* ---------------------------------------------------------------- C33
\* C33: every task that is received eventually reaches the terminal state
\* with a reported result, provided every capability, command and service
\* call returns
C33_EveryTaskReported == (pc = "Received") ~> (pc = "Terminal")

\* ---------------------------------------------------------------- C34
\* the rule engine's decision is the one function of the rule list, the task
\* and the registry contents, whatever was decided and run before
C34_DecisionOfInputsOnly ==
    (rule_engine = "builtin" /\ RuleReturned)
    => rule_action = RuleBasedDecide(rules, task, Available).action

\* deciding and running a task changes neither the rule list nor the registry
C34_DecidingKeepsInputs ==
    pc # "Idle" => rules' = rules /\ registryVars' = registryVars

\* C34: no state passes from task to task: with the same rule list and the
\* same registry contents the rule engine decides a task the same way
\* whichever tasks were decided before it, and deciding a task changes
\* neither the rule list nor the registry
C34_NoTaskToTaskState ==
    []C34_DecisionOfInputsOnly /\ [][C34_DecidingKeepsInputs]_vars

\* a second task gets a ToolCall from the rule engine after a first task
\* was decided otherwise and ran to its end
C34_Witness ==
    /\ rule_engine = "builtin"
    /\ tasksRun = 2
    /\ pc = "RuleEvaluated"
    /\ rule_action.type = "tool_call"
    /\ Len(audit) >= 3
    /\ audit[2].action_type = "decision"
    /\ audit[2].details.tool_name # rule_action.tool_name

\* ---------------------------------------------------------------- C39
\* what run does for the decision it holds when every write succeeds: the
\* calls it makes, the value it returns and the entries it logs after the
\* user_input entry
LosslessRuns ==
    LET name == action.tool_name
        params == ParamsOrEmpty(action)
        decided == <<UserInputEntry, DecisionEntry>>
        called(p) == Append(decided,
                            Entry("tool_call", "info", NoneText, Details(name, p, NoValue)))
        Run1(effs, res, log) == [effects |-> effs, result |-> res, audit |-> log]
    IN CASE action.type = "response" ->
              {Run1(<<>>, Outcome("response", None, action.response), decided)}
         [] action.type \notin {"tool_call", "response"} ->
              {Run1(<<>>, Outcome("error_unknown_type", None, UnknownTypeMsg(action.type)),
                    Append(decided, Entry("error", "error", UnknownTypeMsg(action.type),
                                          NoDetails)))}
         [] action.type = "tool_call" /\ name \notin Available ->
              {Run1(<<>>, Outcome("error_unregistered", name, UnregisteredMsg(name)),
                    Append(decided, Entry("error", "error", UnregisteredMsg(name),
                                          Details(name, params, NoValue))))}
         [] action.type = "tool_call" /\ name \in Available
               /\ name = "execute_command" /\ ~CommandGiven(params) ->
              {Run1(<<>>,
                    Outcome("error_tool_failed", name, ToolFailedMsg(name, CommandRequired)),
                    Append(decided,
                           Entry("tool_result", "error",
                                 ToolFailedMsg(name, CommandRequired),
                                 Details(name, params, NoValue))))}
         [] action.type = "tool_call" /\ name \in Available
               /\ name = "execute_command" /\ CommandGiven(params) ->
              {Run1(<<Effect("sandbox", name, ParamGet(params, "command"),
                             {<<"timeout", TimeoutOf(params)>>}, 3, NoValue)>>,
                    CommandCompletion(o, name, params).result,
                    Append(called(NoneParams), CommandCompletion(o, name, params).entry)) :
               o \in SandboxOutcomes}
         [] OTHER ->
              {Run1(<<Effect("tool", name, NoneText, params, 3,
                             IF o = "returns" THEN v ELSE NoValue)>>,
                    DirectCompletion(o, name, params, v, cause).result,
                    Append(called(params),
                           DirectCompletion(o, name, params, v, cause).entry)) :
               o \in ToolOutcomes, v \in ReturnValues, cause \in Causes}

\* the same calls with the same arguments, wherever the log stood
SameCalls(e1, e2) ==
    /\ Len(e1) = Len(e2)
    /\ \A k \in DOMAIN e1 : [e1[k] EXCEPT !.at = 0] = [e2[k] EXCEPT !.at = 0]

IsSubsequence(a, b) == \E mask \in SUBSET DOMAIN b : Keep(b, mask) = a

\* the dispatcher's decision as it is when every write succeeds
C39_SameDecision ==
    /\ (rule_engine = "builtin" /\ RuleReturned)
          => rule_action = RuleBasedDecide(rules, task, Available).action
    /\ DecideReturned
          => action = IF HybridBranch(rule_action, Available) = "escalate"
                      THEN llm_action ELSE rule_action

\* the entries a step of run put into the file
Logged == SubSeq(audit', Len(audit) + 1, Len(audit'))

\* a step of run writes a subsequence of the entries it writes when every
\* write succeeds, and its calls and its result are those of that run
C39_SameRun ==
    /\ Len(audit) <= Len(audit')
    /\ SubSeq(audit', 1, Len(audit)) = audit
    /\ CASE pc = "Idle" /\ pc' = "Received" ->
               IsSubsequence(Logged, <<UserInputEntry>>)
         [] pc = "Decided" /\ pc' = "Terminal" ->
               \E r \in LosslessRuns :
                   /\ SameCalls(effects', r.effects)
                   /\ result' = r.result
                   /\ IsSubsequence(Logged, SubSeq(r.audit, 2, Len(r.audit)))
         [] OTHER -> audit' = audit

\* C39: a write of the audit file that fails is swallowed: log_action does
\* not raise into run, the entry is dropped and nothing is logged in its
\* place, and the task gets the same decision, makes the same call and
\* returns the same result as a run whose writes all succeed
C39_FailedWriteIsSwallowed ==
    /\ []C39_SameDecision
    /\ [](pc = "Raised" => Last(calls) = "llm_engine" /\ action = NoAction)
    /\ [][C39_SameRun]_vars

\* a capability ran and its value was returned while no entry after the
\* user_input entry could be written
C39_Witness ==
    /\ pc = "Terminal"
    /\ sink.disk = "failing"
    /\ result.outcome = "tool_value"
    /\ Len(effects) = 1
    /\ audit = <<UserInputEntry>>

\* ---------------------------------------------------------------- C31
\* an entry as it reads after json.dumps and json.loads
AsRead(entry) == Loads(Dumps(entry, 0))

\* the JSON-serializable entries handed to the logger so far, as they read
EmittedEntries ==
    LET Encodable(e) == ~DumpsRaises(e.entry)
        given == SelectSeq(sink.emitted, Encodable)
    IN [k \in DOMAIN given |-> AsRead(given[k].entry)]

\* a call of log_action with a JSON-serializable record puts its one entry
\* at the end of the file, and no step changes, moves or removes a line that
\* is in the file
C31_AppendOnly ==
    /\ (sink'.emitted # sink.emitted /\ ~DumpsRaises(Last(sink'.emitted).entry))
          => sink'.file = Append(sink.file,
                                 Dumps(Last(sink'.emitted).entry, Len(sink.file)))
    /\ Len(sink.file) <= Len(sink'.file)
    /\ SubSeq(sink'.file, 1, Len(sink.file)) = sink.file

\* C31: the audit trail is append-only and can be replayed: each log_action
\* call (with a JSON-serializable record) appends exactly one entry at the end, nothing changes, reorders or
\* removes an earlier entry, and get_logs returns all entries logged so far,
\* in the order of the calls, with the fields they were logged with
C31_AppendOnlyReplayable ==
    /\ [][C31_AppendOnly]_vars
    /\ [](sink.op = "get_logs" => sink.logs = EmittedEntries)

\* ---------------------------------------------------------------- C35
\* the thread that logged an entry: timestamps tell the calls apart
WriterOf(entry) ==
    (CHOOSE e \in {sink.emitted[k] : k \in DOMAIN sink.emitted} :
        e.entry.timestamp = entry.timestamp).writer

\* the entries of thread w in the file, in file order
WrittenBy(w) ==
    LET Mine(e) == WriterOf(e) = w
    IN SelectSeq(ReadLines(sink.file), Mine)

\* the entries thread w handed to _write_log, in call order, as they read
EmittedBy(w) ==
    LET all == [k \in DOMAIN sink.emitted |-> sink.emitted[k]]
        Mine(e) == e.writer = w /\ ~DumpsRaises(e.entry)
        mine == SelectSeq(all, Mine)
    IN [k \in DOMAIN mine |-> AsRead(mine[k].entry)]

====
